---- MODULE Spec2Model ----
(***************************************************************************)
(* namedot: the store (zones, rr_sets, r_data, templates), the REST        *)
(* control plane handlers, the SOA serial maintenance, the zone import     *)
(* engine (JSON and BIND), the replication import and the DNS zone cache.  *)
(*                                                                         *)
(* Strings that the code transforms (names) are sequences of one-character *)
(* strings, so that ToLower, TrimSuffix, HasSuffix compute what the Go     *)
(* functions compute.  Record data is a record                             *)
(*   [txt, nf, serial]                                                     *)
(* txt the text (for a SOA: its MNAME/RNAME part), nf the number of        *)
(* whitespace separated fields (strings.Fields), serial the third field    *)
(* when it parses as an integer and NoSerial when it does not.             *)
(***************************************************************************)
EXTENDS Integers, Sequences, FiniteSets, TLC

VARIABLES db, cfg, zoneCache, rest, last, dns, nreq, call, rcache, serve, clock

\* the data plane's own state: response cache, queries in flight, time
resolver == <<rcache, serve, clock>>

vars == <<db, cfg, zoneCache, rest, last, dns, nreq, call, rcache, serve, clock>>

(***************************************************************************)
(* Bounds of the model.                                                    *)
(***************************************************************************)
\* requests one control plane worker handles in one behaviour
MaxRequests == 1
\* time.Now().Unix() returns a value of 1..MaxNow
MaxNow == 3
\* characters of a name handed to a normalization function
MaxNameLen == 3
\* records of an RRSet handed to the Geo selection
MaxRecs == 2
\* queries the DNS server answers in one behaviour
MaxQueries == 2
\* seconds on the clock of the DNS server
MaxClock == 450
\* performance.cache_size: entries the response cache holds
CacheSize == 1

(***************************************************************************)
(* strings                                                                 *)
(***************************************************************************)
LowerChar(c) ==
  CASE c = "A" -> "a"
    [] c = "B" -> "b"
    [] c = "W" -> "w"
    [] OTHER -> c

ToLower(s) == [i \in DOMAIN s |-> LowerChar(s[i])]

HasSuffix(s, suf) ==
  /\ Len(suf) <= Len(s)
  /\ SubSeq(s, Len(s) - Len(suf) + 1, Len(s)) = suf

TrimSuffix(s, suf) ==
  IF HasSuffix(s, suf) THEN SubSeq(s, 1, Len(s) - Len(suf)) ELSE s

RECURSIVE TrimLeft(_)
TrimLeft(s) == IF s # <<>> /\ Head(s) = " " THEN TrimLeft(Tail(s)) ELSE s

RECURSIVE TrimRight(_)
TrimRight(s) ==
  IF s # <<>> /\ s[Len(s)] = " " THEN TrimRight(SubSeq(s, 1, Len(s) - 1)) ELSE s

TrimSpace(s) == TrimRight(TrimLeft(s))

ToUpperType(t) ==
  CASE t = "a" -> "A"
    [] t = "mx" -> "MX"
    [] t = "soa" -> "SOA"
    [] t = "cname" -> "CNAME"
    [] OTHER -> t

Dot == <<".">>
At == <<"@">>
DotAt == <<".", "@">>

(***************************************************************************)
(* dns.Fqdn of the DNS library: a trailing dot is added when missing       *)
(***************************************************************************)
Fqdn(s) == IF HasSuffix(s, Dot) THEN s ELSE s \o Dot

(***************************************************************************)
(* rest.fqdn(name, zone)                                                   *)
(***************************************************************************)
fqdn(name, zone) ==
  LET n0 == ToLower(name)
      n1 == IF HasSuffix(n0, DotAt) THEN TrimSuffix(n0, DotAt) ELSE n0
      n == TrimSuffix(n1, Dot)
      z == TrimSuffix(ToLower(zone), Dot)
  IN IF n = <<>> \/ n = At THEN z \o Dot ELSE n \o Dot \o z \o Dot

(***************************************************************************)
(* zoneio.NormalizeRRSetName(name, zoneName): [err, name]                  *)
(***************************************************************************)
NormalizeRRSetName(name, zoneName) ==
  LET n0 == ToLower(TrimSpace(name))
      zone == TrimSuffix(ToLower(TrimSpace(zoneName)), Dot)
      zoneFQDN == zone \o Dot
      n == IF HasSuffix(n0, DotAt) THEN TrimSuffix(n0, DotAt) ELSE n0
      result ==
        IF HasSuffix(n, Dot) THEN n
        ELSE IF n = zone THEN zoneFQDN
        ELSE IF HasSuffix(n, Dot \o zone) THEN n \o Dot
        ELSE n \o Dot \o zoneFQDN
  IN IF n0 = <<>> \/ n0 = At THEN [err |-> FALSE, name |-> zoneFQDN]
     ELSE IF result # zoneFQDN /\ ~HasSuffix(result, Dot \o zoneFQDN)
          THEN [err |-> TRUE, name |-> <<>>]
          ELSE [err |-> FALSE, name |-> result]

(***************************************************************************)
(* zoneio.NormalizeFQDN(name)                                              *)
(***************************************************************************)
NormalizeFQDN(name) ==
  LET n == ToLower(TrimSpace(name))
  IN IF n # <<>> /\ ~HasSuffix(n, Dot) THEN n \o Dot ELSE n

(***************************************************************************)
(* record data                                                             *)
(***************************************************************************)
NoSerial == -1

Plain(c) == [txt |-> <<c>>, nf |-> 1, serial |-> NoSerial]
SOAData(n) == [txt |-> <<"s">>, nf |-> 7, serial |-> n]

Rec(d) == [data |-> d, geo |-> ""]
GeoRec(d, g) == [data |-> d, geo |-> g]

(***************************************************************************)
(* The store: the tables of db.AutoMigrate.  seq holds each table's last   *)
(* assigned primary key (integer PRIMARY KEY AUTOINCREMENT).               *)
(***************************************************************************)
EmptyDB ==
  [zones |-> {}, rr_sets |-> {}, r_data |-> {},
   templates |-> {}, template_records |-> {},
   seq |-> [zones |-> 0, rr_sets |-> 0, r_data |-> 0,
            templates |-> 0, template_records |-> 0]]

OK(d) == [err |-> FALSE, db |-> d]
Fail(d) == [err |-> TRUE, db |-> d]

\* db.Create(&Zone{Name: name}); the unique index on zones.name rejects a duplicate
CreateZoneRow(d, name) ==
  IF \E z \in d.zones : z.name = name
  THEN Fail(d)
  ELSE OK([d EXCEPT !.zones = @ \cup {[id |-> d.seq.zones + 1, name |-> name]},
                    !.seq.zones = @ + 1])

\* the rows of r_data inserted for the records of one RRSet
NewRData(d, rid, recs) ==
  {[id |-> d.seq.r_data + i, rr_set_id |-> rid,
    data |-> recs[i].data, geo |-> recs[i].geo] : i \in 1..Len(recs)}

\* a db.Create(&RRSet{}) on a table without idx_rrset_unique
CreateRRSetRowNoIndex(d, zid, name, typ, ttl, recs) ==
  LET rid == d.seq.rr_sets + 1
  IN OK([d EXCEPT
           !.rr_sets = @ \cup {[id |-> rid, zone_id |-> zid, name |-> name,
                                type |-> typ, ttl |-> ttl]},
           !.r_data = @ \cup NewRData(d, rid, recs),
           !.seq.rr_sets = rid,
           !.seq.r_data = @ + Len(recs)])

\* db.Create(&RRSet{...Records: recs}); idx_rrset_unique rejects a duplicate
CreateRRSetRow(d, zid, name, typ, ttl, recs) ==
  IF \E s \in d.rr_sets : s.zone_id = zid /\ s.name = name /\ s.type = typ
  THEN Fail(d)
  ELSE LET rid == d.seq.rr_sets + 1
       IN OK([d EXCEPT
                !.rr_sets = @ \cup {[id |-> rid, zone_id |-> zid, name |-> name,
                                     type |-> typ, ttl |-> ttl]},
                !.r_data = @ \cup NewRData(d, rid, recs),
                !.seq.rr_sets = rid,
                !.seq.r_data = @ + Len(recs)])

\* tx.Where("rr_set_id IN ?", ids).Delete(&RData{})
DeleteRDataOf(d, ids) ==
  [d EXCEPT !.r_data = {r \in @ : r.rr_set_id \notin ids}]

\* tx.Where("zone_id = ?", zid).Delete(&RRSet{})
DeleteRRSetsOfZone(d, zid) ==
  [d EXCEPT !.rr_sets = {s \in @ : s.zone_id # zid}]

RRSetIDs(d, zid) == {s.id : s \in {x \in d.rr_sets : x.zone_id = zid}}

\* First(&row): the row with the least primary key
MinId(rows) == CHOOSE r \in rows : \A x \in rows : r.id <= x.id

\* a Transaction that keeps the changes made before the error
TransactionNoRollback(before, res) == res

\* db.Transaction(fn): the changes of fn are kept when it returns nil and
\* rolled back when it returns an error
Transaction(before, res) == IF res.err THEN Fail(before) ELSE res

(***************************************************************************)
(* control plane: per worker request state                                 *)
(***************************************************************************)
NoZone == [id |-> 0, name |-> <<>>]
NoArg == [format |-> "", mode |-> "", rrsets |-> <<>>, id |-> 0]
NoSOA == [found |-> FALSE, rec |-> 0, nf |-> 0, serial |-> NoSerial, txt |-> <<>>]

Idle ==
  [pc |-> "idle", op |-> "", zone |-> NoZone, bump |-> "none", status |-> 0,
   soa |-> NoSOA, committed |-> FALSE, bumped |-> FALSE, arg |-> NoArg,
   pre |-> EmptyDB]

NoResponse ==
  [op |-> "", status |-> 0, invalidated |-> FALSE, committed |-> FALSE,
   bumped |-> FALSE, zone |-> NoZone, arg |-> NoArg]

\* the handler returned without calling InvalidateZoneCache
Respond(w, op, status, z, arg) ==
  /\ last' = [last EXCEPT ![w] =
       [op |-> op, status |-> status, invalidated |-> FALSE, committed |-> FALSE,
        bumped |-> FALSE, zone |-> z, arg |-> arg]]
  /\ rest' = [rest EXCEPT ![w] = Idle]
  /\ nreq' = [nreq EXCEPT ![w].started = @ + 1]

\* a handler that goes from its commit to the invalidation, without the bump
ProceedNoBump(w, op, status, z, bump, arg) ==
  /\ nreq' = [nreq EXCEPT ![w].started = @ + 1]
  /\ rest' = [rest EXCEPT ![w] =
    [pc |-> "invalidate", op |-> op, zone |-> z, bump |-> bump,
     status |-> status, soa |-> NoSOA, committed |-> TRUE, bumped |-> FALSE,
     arg |-> arg, pre |-> db]]

\* the handler committed its store change and goes on to the SOA bump
\* (bump = "auto": BumpSOASerialAuto, "plain": BumpSOASerial) or, with
\* bump = "none", to the cache invalidation; pre remembers the store the
\* request found, nreq counts the requests and the zone mutations committed
Proceed(w, op, status, z, bump, arg) ==
  /\ nreq' = [nreq EXCEPT ![w].started = @ + 1,
                          ![w].mutations = IF bump = "none" THEN @ ELSE @ + 1]
  /\ rest' = [rest EXCEPT ![w] =
    [pc |-> IF bump = "none" THEN "invalidate" ELSE "bump", op |-> op,
     zone |-> z, bump |-> bump, status |-> status, soa |-> NoSOA,
     committed |-> TRUE, bumped |-> FALSE, arg |-> arg, pre |-> db]]

CanStart(w) ==
  /\ rest[w].pc = "idle"
  /\ nreq[w].started < MaxRequests

(***************************************************************************)
(* POST /zones                                                             *)
(***************************************************************************)
ZoneNameInputs == {<<>>, <<"a", ".">>, <<"A", ".">>, <<"b", ".">>, <<"a">>}

createZone(w, name) ==
  /\ CanStart(w)
  /\ IF name = <<>>
     THEN /\ Respond(w, "createZone", 400, NoZone, NoArg)
          /\ UNCHANGED <<db, zoneCache>>
     ELSE LET res == CreateZoneRow(db, ToLower(name))
          IN IF res.err
             THEN /\ Respond(w, "createZone", 400, NoZone, NoArg)
                  /\ UNCHANGED <<db, zoneCache>>
             ELSE /\ db' = res.db
                  /\ Proceed(w, "createZone", 201, NoZone, "none", NoArg)
                  /\ UNCHANGED <<zoneCache, last>>
  /\ UNCHANGED <<cfg, dns, call, resolver>>

(***************************************************************************)
(* DELETE /zones/:id                                                       *)
(***************************************************************************)
\* the ids a request names: those of the rows, and one that no row has
ZoneIdInputs == {z.id : z \in db.zones} \cup {db.seq.zones + 1}
RRSetIdInputs == {s.id : s \in db.rr_sets} \cup {db.seq.rr_sets + 1}

ZoneById(d, zid) ==
  IF \E z \in d.zones : z.id = zid
  THEN CHOOSE z \in d.zones : z.id = zid
  ELSE NoZone

deleteZoneTx(d, z) ==
  OK([DeleteRRSetsOfZone(d, z.id) EXCEPT !.zones = {x \in @ : x.id # z.id}])

deleteZone(w, zid) ==
  /\ CanStart(w)
  /\ LET z == ZoneById(db, zid)
     IN IF z = NoZone
        THEN /\ Respond(w, "deleteZone", 404, NoZone, NoArg)
             /\ UNCHANGED <<db, zoneCache>>
        ELSE LET res == Transaction(db, deleteZoneTx(db, z))
             IN /\ db' = res.db
                /\ Proceed(w, "deleteZone", 204, z, "none", NoArg)
                /\ UNCHANGED <<zoneCache, last>>
  /\ UNCHANGED <<cfg, dns, call, resolver>>

(***************************************************************************)
(* POST /zones/:id/rrsets                                                  *)
(***************************************************************************)
GeoUpper(g) == IF g = "us" THEN "US" ELSE g

\* rrsetReq.recordsNormalized with normalizePtr
recordsNormalized(recs) ==
  [i \in DOMAIN recs |->
     [data |-> [recs[i].data EXCEPT !.txt = TrimSpace(@)],
      geo |-> GeoUpper(recs[i].geo)]]

\* the "@" shorthand of a CNAME target is expanded to the apex before save
ExpandCNAME(typ, recs, zname) ==
  IF typ = "CNAME"
  THEN [i \in DOMAIN recs |->
          IF TrimSpace(recs[i].data.txt) = At
          THEN [recs[i] EXCEPT !.data.txt = fqdn(At, zname)]
          ELSE recs[i]]
  ELSE recs

WithDefaultTTL(ttl, defaultTTL) ==
  IF ttl = 0 /\ defaultTTL > 0 THEN defaultTTL ELSE ttl

BadPayload == [bad |-> TRUE, name |-> <<>>, type |-> "", ttl |-> 0, records |-> <<>>]
Req(n, t, ttl, recs) == [bad |-> FALSE, name |-> n, type |-> t, ttl |-> ttl, records |-> recs]

RRSetReqs ==
  { BadPayload,
    Req(<<"w">>, "A", 300, <<Rec(Plain("1"))>>),
    Req(At, "mx", 0, <<Rec(Plain("2"))>>),
    Req(At, "SOA", 600, <<Rec(SOAData(5))>>) }

createRRSet(w, zid, req) ==
  /\ CanStart(w)
  /\ LET z == ZoneById(db, zid)
         name == ToLower(fqdn(req.name, z.name))
         recordType == ToUpperType(req.type)
         recs == ExpandCNAME(recordType, recordsNormalized(req.records), z.name)
         res == CreateRRSetRow(db, z.id, name, recordType,
                               WithDefaultTTL(req.ttl, cfg.defaultTTL), recs)
         \* First(&existing); the 409 carries existing_id
         existing == MinId({s \in db.rr_sets :
                      s.zone_id = z.id /\ s.name = name /\ s.type = recordType})
     IN IF z = NoZone
        THEN /\ Respond(w, "createRRSet", 404, NoZone, NoArg)
             /\ UNCHANGED <<db, zoneCache>>
        ELSE IF req.bad
        THEN /\ Respond(w, "createRRSet", 400, z, NoArg)
             /\ UNCHANGED <<db, zoneCache>>
        ELSE IF \E s \in db.rr_sets :
                  s.zone_id = z.id /\ s.name = name /\ s.type = recordType
        THEN /\ Respond(w, "createRRSet", 409, z, [NoArg EXCEPT !.id = existing.id])
             /\ UNCHANGED <<db, zoneCache>>
        ELSE IF res.err
        THEN /\ Respond(w, "createRRSet", 400, z, NoArg)
             /\ UNCHANGED <<db, zoneCache>>
        ELSE /\ db' = res.db
             /\ Proceed(w, "createRRSet", 201, z, "auto", NoArg)
             /\ UNCHANGED <<zoneCache, last>>
  /\ UNCHANGED <<cfg, dns, call, resolver>>

(***************************************************************************)
(* PUT, PATCH /zones/:id/rrsets/:rid                                       *)
(***************************************************************************)
\* tx.Save(&set): the row and its new records; the unique index rejects a
\* (zone_id, name, type) that another row holds
SaveRRSet(d, set, recs) ==
  IF \E s \in d.rr_sets :
       s.id # set.id /\ s.zone_id = set.zone_id /\ s.name = set.name /\ s.type = set.type
  THEN Fail(d)
  ELSE OK([d EXCEPT
            !.rr_sets = {s \in @ : s.id # set.id} \cup {set},
            !.r_data = @ \cup NewRData(d, set.id, recs),
            !.seq.r_data = @ + Len(recs)])

updateRRSetTx(d, set, recs) ==
  SaveRRSet(DeleteRDataOf(d, {set.id}), set, recs)

updateRRSet(w, zid, rid, req) ==
  /\ CanStart(w)
  /\ LET z == ZoneById(db, zid)
         found == {s \in db.rr_sets : s.zone_id = z.id /\ s.id = rid}
     IN IF z = NoZone
        THEN /\ Respond(w, "updateRRSet", 404, NoZone, NoArg)
             /\ UNCHANGED <<db, zoneCache>>
        ELSE IF found = {}
        THEN /\ Respond(w, "updateRRSet", 404, z, NoArg)
             /\ UNCHANGED <<db, zoneCache>>
        ELSE IF req.bad
        THEN /\ Respond(w, "updateRRSet", 400, z, NoArg)
             /\ UNCHANGED <<db, zoneCache>>
        ELSE LET old == CHOOSE s \in found : TRUE
                 typ == ToUpperType(req.type)
                 set == [old EXCEPT !.name = ToLower(fqdn(req.name, z.name)),
                                    !.type = typ,
                                    !.ttl = WithDefaultTTL(req.ttl, cfg.defaultTTL)]
                 recs == ExpandCNAME(typ, recordsNormalized(req.records), z.name)
                 res == Transaction(db, updateRRSetTx(db, set, recs))
             IN IF res.err
                THEN /\ Respond(w, "updateRRSet", 500, z, NoArg)
                     /\ UNCHANGED <<db, zoneCache>>
                ELSE /\ db' = res.db
                     /\ Proceed(w, "updateRRSet", 200, z, "auto", NoArg)
                     /\ UNCHANGED <<zoneCache, last>>
  /\ UNCHANGED <<cfg, dns, call, resolver>>

(***************************************************************************)
(* DELETE /zones/:id/rrsets/:rid                                           *)
(***************************************************************************)
deleteRRSet(w, zid, rid) ==
  /\ CanStart(w)
  /\ LET z == ZoneById(db, zid)
     IN IF z = NoZone
        THEN /\ Respond(w, "deleteRRSet", 404, NoZone, NoArg)
             /\ UNCHANGED <<db, zoneCache>>
        ELSE /\ db' = [db EXCEPT !.rr_sets =
                         {s \in @ : ~(s.zone_id = z.id /\ s.id = rid)}]
             /\ Proceed(w, "deleteRRSet", 204, z, "plain", NoArg)
             /\ UNCHANGED <<zoneCache, last>>
  /\ UNCHANGED <<cfg, dns, call, resolver>>

(***************************************************************************)
(* zoneio.ImportJSON(db, dst, src, mode, defaultTTL)                       *)
(***************************************************************************)
RRSetByKey(d, zid, name, typ) ==
  {s \in d.rr_sets : s.zone_id = zid /\ s.name = name /\ s.type = typ}

\* mode replace: the records of the zone's RRSets, then the RRSets
DeleteZoneContent(d, zid) ==
  DeleteRRSetsOfZone(DeleteRDataOf(d, RRSetIDs(d, zid)), zid)

\* the existing RRSet gets the new TTL and records, a missing one is created
UpsertRRSet(d, zid, name, typ, ttl, recs) ==
  LET ex == RRSetByKey(d, zid, name, typ)
  IN IF ex # {}
     THEN LET existing == MinId(ex)
          IN SaveRRSet(DeleteRDataOf(d, {existing.id}),
                       [existing EXCEPT !.ttl = ttl], recs)
     ELSE CreateRRSetRow(d, zid, name, typ, ttl, recs)

\* an ImportJSON that passes over an RRSet of another zone
RECURSIVE ImportJSONLoopSkip(_, _, _, _)
ImportJSONLoopSkip(d, dst, rrsets, defaultTTL) ==
  IF rrsets = <<>> THEN OK(d)
  ELSE LET rs == Head(rrsets)
           nn == NormalizeRRSetName(rs.name, dst.name)
           res == UpsertRRSet(d, dst.id, nn.name, ToUpperType(rs.type),
                              WithDefaultTTL(rs.ttl, defaultTTL), rs.records)
       IN IF nn.err THEN ImportJSONLoopSkip(d, dst, Tail(rrsets), defaultTTL)
          ELSE IF res.err THEN res
          ELSE ImportJSONLoopSkip(res.db, dst, Tail(rrsets), defaultTTL)

RECURSIVE ImportJSONLoop(_, _, _, _)
ImportJSONLoop(d, dst, rrsets, defaultTTL) ==
  IF rrsets = <<>> THEN OK(d)
  ELSE LET rs == Head(rrsets)
           nn == NormalizeRRSetName(rs.name, dst.name)
           res == UpsertRRSet(d, dst.id, nn.name, ToUpperType(rs.type),
                              WithDefaultTTL(rs.ttl, defaultTTL), rs.records)
       IN IF nn.err THEN Fail(d)
          ELSE IF res.err THEN res
          ELSE ImportJSONLoop(res.db, dst, Tail(rrsets), defaultTTL)

\* an ImportJSON whose replace mode deletes nothing
ImportJSONTxKeep(d, dst, rrsets, mode, defaultTTL) ==
  ImportJSONLoop(d, dst, rrsets, defaultTTL)

ImportJSONTx(d, dst, rrsets, mode, defaultTTL) ==
  ImportJSONLoop(IF mode = "replace" THEN DeleteZoneContent(d, dst.id) ELSE d,
                 dst, rrsets, defaultTTL)

ImportJSON(d, dst, rrsets, mode, defaultTTL) ==
  Transaction(d, ImportJSONTx(d, dst, rrsets, mode, defaultTTL))

(***************************************************************************)
(* zoneio.ImportBIND(db, zone, r, mode, defaultTTL).  The text is a        *)
(* sequence of lines, each a resource record as written (owner name        *)
(* relative or absolute) or a line the zone parser rejects.                *)
(***************************************************************************)
RR(n, t, ttl, d) == [syntax |-> FALSE, name |-> n, type |-> t, ttl |-> ttl, data |-> d]
SyntaxError == [syntax |-> TRUE, name |-> <<>>, type |-> "", ttl |-> 0, data |-> Plain("")]

\* the owner name the zone parser gives an RR: relative names and "@" are
\* completed with the origin
BindOwner(name, origin) ==
  IF name = At THEN origin
  ELSE IF HasSuffix(name, Dot) THEN name
  ELSE name \o Dot \o origin

\* ZoneParser.Next: (rr, true) for each record, (nil, false) at the end of
\* the input and at the first error.  The loop of ImportBIND runs while ok
\* holds and asks zp.Err() only inside its body, where no error is pending;
\* nothing asks after the loop.  The records read so far are the result.
RECURSIVE ParseBIND(_)
ParseBIND(text) ==
  IF text = <<>> \/ Head(text).syntax THEN <<>>
  ELSE <<Head(text)>> \o ParseBIND(Tail(text))

\* the (name, type) buckets, in the order of their first record; an RRSet
\* keeps the TTL of its first record
RECURSIVE BindBuckets(_, _, _, _)
BindBuckets(rrs, origin, defaultTTL, acc) ==
  IF rrs = <<>> THEN acc
  ELSE LET rr == Head(rrs)
           name == ToLower(Fqdn(BindOwner(rr.name, origin)))
           typ == ToUpperType(rr.type)
           hit == {i \in DOMAIN acc : acc[i].name = name /\ acc[i].type = typ}
           acc2 ==
             IF hit = {}
             THEN Append(acc, [name |-> name, type |-> typ,
                               ttl |-> WithDefaultTTL(rr.ttl, defaultTTL),
                               records |-> <<Rec(rr.data)>>])
             ELSE LET i == CHOOSE i \in hit : TRUE
                  IN [acc EXCEPT ![i].records = Append(@, Rec(rr.data))]
       IN BindBuckets(Tail(rrs), origin, defaultTTL, acc2)

RECURSIVE ImportBINDLoop(_, _, _)
ImportBINDLoop(d, zone, rrsets) ==
  IF rrsets = <<>> THEN OK(d)
  ELSE LET rs == Head(rrsets)
           res == UpsertRRSet(d, zone.id, rs.name, rs.type, rs.ttl, rs.records)
       IN IF res.err THEN res
          ELSE ImportBINDLoop(res.db, zone, Tail(rrsets))

ImportBINDTx(d, zone, rrsets, mode) ==
  ImportBINDLoop(IF mode = "replace" THEN DeleteZoneContent(d, zone.id) ELSE d,
                 zone, rrsets)

ImportBIND(d, zone, text, mode, defaultTTL) ==
  Transaction(d, ImportBINDTx(d, zone,
                   BindBuckets(ParseBIND(text), Fqdn(zone.name), defaultTTL, <<>>),
                   mode))

(***************************************************************************)
(* POST /zones/:id/import?format=json|bind&mode=upsert|replace             *)
(***************************************************************************)
Set(n, t, ttl, recs) == [name |-> n, type |-> t, ttl |-> ttl, records |-> recs]

NameW == <<"w">>
NameWA == <<"w", ".", "a", ".">>
NameWB == <<"w", ".", "b", ".">>
ZoneA == <<"a", ".">>
ZoneB == <<"b", ".">>

\* the JSON bodies: id 1 is not JSON
JSONBodies ==
  { [id |-> 1, bad |-> TRUE, rrsets |-> <<>>],
    [id |-> 2, bad |-> FALSE,
     rrsets |-> <<Set(NameW, "a", 0, <<Rec(Plain("3")), GeoRec(Plain("4"), "us")>>)>>],
    [id |-> 3, bad |-> FALSE,
     rrsets |-> <<Set(NameWA, "A", 600, <<Rec(Plain("3"))>>),
                  Set(NameWB, "A", 600, <<Rec(Plain("3"))>>)>>],
    [id |-> 4, bad |-> FALSE,
     rrsets |-> <<Set(At, "SOA", 300, <<Rec(SOAData(5))>>),
                  Set(<<"n">>, "TXT", 300, <<Rec(Plain("5"))>>)>>] }

\* the BIND bodies: the second and third have a line the parser rejects, the
\* fourth names an owner in full
BINDBodies ==
  { [id |-> 1, text |-> <<RR(NameW, "A", 0, Plain("3")), RR(NameW, "A", 600, Plain("4")),
                          RR(At, "SOA", 300, SOAData(5))>>],
    [id |-> 2, text |-> <<RR(NameW, "A", 600, Plain("3")), SyntaxError,
                          RR(At, "MX", 600, Plain("6"))>>],
    [id |-> 3, text |-> <<SyntaxError>>],
    [id |-> 4, text |-> <<RR(NameWB, "A", 600, Plain("3"))>>] }

Modes == {"upsert", "replace", "merge"}

ImportArg(format, mode, id, rrsets) ==
  [format |-> format, mode |-> mode, rrsets |-> rrsets, id |-> id]

importZoneJSON(w, zid, mode, body) ==
  /\ CanStart(w)
  /\ LET z == ZoneById(db, zid)
         arg == ImportArg("json", mode, body.id, body.rrsets)
         res == ImportJSON(db, z, body.rrsets, mode, cfg.defaultTTL)
     IN IF mode \notin {"upsert", "replace"}
        THEN /\ Respond(w, "importZone", 400, NoZone, arg)
             /\ UNCHANGED <<db, zoneCache>>
        ELSE IF z = NoZone
        THEN /\ Respond(w, "importZone", 404, NoZone, arg)
             /\ UNCHANGED <<db, zoneCache>>
        ELSE IF body.bad
        THEN /\ Respond(w, "importZone", 400, z, arg)
             /\ UNCHANGED <<db, zoneCache>>
        ELSE IF res.err
        THEN /\ Respond(w, "importZone", 500, z, arg)
             /\ db' = res.db
             /\ UNCHANGED zoneCache
        ELSE /\ db' = res.db
             /\ Proceed(w, "importZone", 204, z, "auto", arg)
             /\ UNCHANGED <<zoneCache, last>>
  /\ UNCHANGED <<cfg, dns, call, resolver>>

importZoneBIND(w, zid, mode, body) ==
  /\ CanStart(w)
  /\ LET z == ZoneById(db, zid)
         arg == ImportArg("bind", mode, body.id, <<>>)
         res == ImportBIND(db, z, body.text, mode, cfg.defaultTTL)
     IN IF mode \notin {"upsert", "replace"}
        THEN /\ Respond(w, "importZone", 400, NoZone, arg)
             /\ UNCHANGED <<db, zoneCache>>
        ELSE IF z = NoZone
        THEN /\ Respond(w, "importZone", 404, NoZone, arg)
             /\ UNCHANGED <<db, zoneCache>>
        ELSE IF res.err
        THEN /\ Respond(w, "importZone", 400, z, arg)
             /\ db' = res.db
             /\ UNCHANGED zoneCache
        ELSE /\ db' = res.db
             /\ Proceed(w, "importZone", 204, z, "auto", arg)
             /\ UNCHANGED <<zoneCache, last>>
  /\ UNCHANGED <<cfg, dns, call, resolver>>

\* any other format
importZoneOther(w, zid, mode) ==
  /\ CanStart(w)
  /\ LET z == ZoneById(db, zid)
         arg == ImportArg("xml", mode, 0, <<>>)
     IN IF mode \notin {"upsert", "replace"}
        THEN Respond(w, "importZone", 400, NoZone, arg)
        ELSE IF z = NoZone
        THEN Respond(w, "importZone", 404, NoZone, arg)
        ELSE Respond(w, "importZone", 400, z, arg)
  /\ UNCHANGED <<db, zoneCache, cfg, dns, call, resolver>>

(***************************************************************************)
(* GET /sync/export: the zones with their RRSets and records and the       *)
(* templates with their records, rows in primary key order                 *)
(***************************************************************************)
RECURSIVE ById(_)
ById(rows) ==
  IF rows = {} THEN <<>>
  ELSE LET r == MinId(rows) IN <<r>> \o ById(rows \ {r})

ExportRecords(d, rid) ==
  LET rows == ById({r \in d.r_data : r.rr_set_id = rid})
  IN [i \in DOMAIN rows |-> [data |-> rows[i].data, geo |-> rows[i].geo]]

ExportRRSets(d, zid) ==
  LET rows == ById({x \in d.rr_sets : x.zone_id = zid})
  IN [i \in DOMAIN rows |->
        [name |-> rows[i].name, type |-> rows[i].type, ttl |-> rows[i].ttl,
         records |-> ExportRecords(d, rows[i].id)]]

ExportTemplateRecords(d, tid) ==
  LET rows == ById({r \in d.template_records : r.template_id = tid})
  IN [i \in DOMAIN rows |->
        [name |-> rows[i].name, type |-> rows[i].type, ttl |-> rows[i].ttl,
         data |-> rows[i].data, geo |-> rows[i].geo]]

syncExport(d) ==
  LET zs == ById(d.zones)
      ts == ById(d.templates)
  IN [bad |-> FALSE,
      zones |-> [i \in DOMAIN zs |->
                   [name |-> zs[i].name, rrsets |-> ExportRRSets(d, zs[i].id)]],
      templates |-> [i \in DOMAIN ts |->
                   [name |-> ts[i].name, description |-> ts[i].description,
                    records |-> ExportTemplateRecords(d, ts[i].id)]]]

(***************************************************************************)
(* POST /sync/import                                                       *)
(***************************************************************************)
RECURSIVE SyncRRSets(_, _, _)
SyncRRSets(d, zid, rrsets) ==
  IF rrsets = <<>> THEN OK(d)
  ELSE LET rs == Head(rrsets)
           res == CreateRRSetRow(d, zid, rs.name, rs.type, rs.ttl, rs.records)
       IN IF res.err THEN res ELSE SyncRRSets(res.db, zid, Tail(rrsets))

\* one zone of the payload: the zone row is looked up by the payload's name
\* and created when missing, its RRSets and records are deleted, the
\* payload's RRSets are created
SyncZone(d, zone) ==
  LET ex == {z \in d.zones : z.name = zone.name}
      cr == CreateZoneRow(d, zone.name)
      zid == IF ex # {} THEN MinId(ex).id ELSE d.seq.zones + 1
  IN IF ex = {} /\ cr.err THEN cr
     ELSE SyncRRSets(DeleteZoneContent(IF ex # {} THEN d ELSE cr.db, zid),
                     zid, zone.rrsets)

RECURSIVE SyncZones(_, _)
SyncZones(d, zones) ==
  IF zones = <<>> THEN OK(d)
  ELSE LET res == SyncZone(d, Head(zones))
       IN IF res.err THEN res ELSE SyncZones(res.db, Tail(zones))

NewTemplateRecords(d, tid, recs) ==
  {[id |-> d.seq.template_records + i, template_id |-> tid,
    name |-> recs[i].name, type |-> recs[i].type, ttl |-> recs[i].ttl,
    data |-> recs[i].data, geo |-> recs[i].geo] : i \in 1..Len(recs)}

\* one template of the payload: looked up by name; created, or its
\* description saved; its records deleted and the payload's created
SyncTemplate(d, tmpl) ==
  LET ex == {t \in d.templates : t.name = tmpl.name}
      tid == IF ex # {} THEN MinId(ex).id ELSE d.seq.templates + 1
      row == [id |-> tid, name |-> tmpl.name, description |-> tmpl.description]
  IN [d EXCEPT
        !.templates = {t \in @ : t.id # tid} \cup {row},
        !.seq.templates = IF ex # {} THEN @ ELSE tid,
        !.template_records = {r \in @ : r.template_id # tid}
                               \cup NewTemplateRecords(d, tid, tmpl.records),
        !.seq.template_records = @ + Len(tmpl.records)]

RECURSIVE SyncTemplates(_, _)
SyncTemplates(d, templates) ==
  IF templates = <<>> THEN d
  ELSE SyncTemplates(SyncTemplate(d, Head(templates)), Tail(templates))

syncImportTx(d, data) ==
  LET res == SyncZones(d, data.zones)
  IN IF res.err THEN res ELSE OK(SyncTemplates(res.db, data.templates))

(***************************************************************************)
(* The stores the model starts from, each built with the operations above: *)
(* an empty one; one with zone "a." holding a SOA, an A and an MX RRSet;   *)
(* one that has in addition an empty zone "b." and a template; and the     *)
(* store of a master whose zone "a." differs.                              *)
(***************************************************************************)
DefaultSOATTL == 3600

Tmpl(n, d, recs) == [name |-> n, description |-> d, records |-> recs]
TmplRec(n, t, ttl, d) == [name |-> n, type |-> t, ttl |-> ttl, data |-> d, geo |-> ""]

SeedA ==
  LET d0 == CreateZoneRow(EmptyDB, ZoneA).db
      d1 == CreateRRSetRow(d0, 1, ZoneA, "SOA", DefaultSOATTL,
                           <<Rec(SOAData(2))>>).db
      d2 == CreateRRSetRow(d1, 1, NameWA, "A", 300, <<Rec(Plain("1"))>>).db
  IN CreateRRSetRow(d2, 1, ZoneA, "MX", 300, <<Rec(Plain("2"))>>).db

SeedAB ==
  SyncTemplate(CreateZoneRow(SeedA, ZoneB).db,
               Tmpl("t", "d", <<TmplRec(At, "A", 300, Plain("1"))>>))

MasterStore ==
  LET d0 == CreateZoneRow(EmptyDB, ZoneA).db
      d1 == CreateRRSetRow(d0, 1, ZoneA, "SOA", DefaultSOATTL,
                           <<Rec(SOAData(7))>>).db
      d2 == CreateRRSetRow(d1, 1, NameWA, "A", 600,
                           <<Rec(Plain("3")), GeoRec(Plain("4"), "US")>>).db
  IN SyncTemplate(d2, Tmpl("t", "m", <<TmplRec(At, "MX", 600, Plain("2"))>>))

Seeds == {EmptyDB, SeedA, SeedAB}

\* the request bodies of /sync/import: what a master exports, a body that
\* is not JSON, and a catalog in which a zone holds the same (name, type)
\* twice
BadSync == [bad |-> TRUE, zones |-> <<>>, templates |-> <<>>]
DupSync ==
  [bad |-> FALSE,
   zones |-> <<[name |-> <<"c", ".">>, rrsets |-> <<>>],
               [name |-> ZoneA,
                rrsets |-> <<Set(NameWA, "A", 600, <<Rec(Plain("3"))>>),
                             Set(NameWA, "A", 300, <<Rec(Plain("4"))>>)>>]>>,
   templates |-> <<>>]

SyncBodies ==
  { [id |-> 1, data |-> BadSync],
    [id |-> 2, data |-> DupSync],
    [id |-> 3, data |-> syncExport(MasterStore)],
    [id |-> 4, data |-> syncExport(EmptyDB)],
    [id |-> 5, data |-> syncExport(SeedAB)] }

syncImport(w, body) ==
  /\ CanStart(w)
  /\ LET arg == ImportArg("sync", "", body.id, <<>>)
         res == Transaction(db, syncImportTx(db, body.data))
     IN IF body.data.bad
        THEN /\ Respond(w, "syncImport", 400, NoZone, arg)
             /\ UNCHANGED <<db, zoneCache>>
        ELSE IF res.err
        THEN /\ Respond(w, "syncImport", 500, NoZone, arg)
             /\ db' = res.db
             /\ UNCHANGED zoneCache
        ELSE /\ db' = res.db
             /\ Proceed(w, "syncImport", 200, NoZone, "none", arg)
             /\ UNCHANGED <<zoneCache, last>>
  /\ UNCHANGED <<cfg, dns, call, resolver>>

(***************************************************************************)
(* db.BumpSOASerial and db.BumpSOASerialAuto.  The SOA is read with one    *)
(* statement and written with another, outside any transaction.  The       *)
(* configured soa.primary and soa.hostmaster are empty, their default, so  *)
(* a bump leaves MNAME and RNAME as they are.                              *)
(***************************************************************************)

\* db.Preload("Records").Where("zone_id = ? AND type = ?", id, "SOA").Limit(1).Find(&soa)
ReadSOA(d, s) ==
  LET recs == {r \in d.r_data : r.rr_set_id = s.id}
  IN IF recs = {} THEN NoSOA
     ELSE LET r == MinId(recs)
          IN [found |-> TRUE, rec |-> r.id, nf |-> r.data.nf,
              serial |-> r.data.serial, txt |-> r.data.txt]

BumpRead(w) ==
  /\ rest[w].pc = "bump"
  /\ LET soas == {s \in db.rr_sets : s.zone_id = rest[w].zone.id /\ s.type = "SOA"}
     IN IF soas = {}
        THEN rest' = [rest EXCEPT ![w].pc = "bumpwrite", ![w].soa = NoSOA]
        ELSE \E s \in soas :
               rest' = [rest EXCEPT ![w].pc = "bumpwrite", ![w].soa = ReadSOA(db, s)]
  /\ UNCHANGED <<db, cfg, zoneCache, last, dns, nreq, call, resolver>>

\* the default SOA of BumpSOASerialAuto; the error of db.Create is dropped
CreateDefaultSOA(d, z, now) ==
  CreateRRSetRow(d, z.id, TrimSuffix(ToLower(z.name), Dot) \o Dot, "SOA",
                 DefaultSOATTL, <<Rec(SOAData(now))>>).db

\* db.Model(&RData{}).Where("id = ?", id).Update("data", newData)
UpdateSerial(d, id, n) ==
  [d EXCEPT !.r_data =
     {IF r.id = id THEN [r EXCEPT !.data.serial = n] ELSE r : r \in @}]

NextSerial(serial, now) == IF serial # NoSerial THEN serial + 1 ELSE now

BumpWrite(w) ==
  /\ rest[w].pc = "bumpwrite"
  /\ \E now \in 1..MaxNow :
       LET soa == rest[w].soa
       IN db' = IF ~soa.found
                THEN IF rest[w].bump = "auto" /\ cfg.auto
                     THEN CreateDefaultSOA(db, rest[w].zone, now)
                     ELSE db
                ELSE IF soa.nf < 7 THEN db
                ELSE UpdateSerial(db, soa.rec, NextSerial(soa.serial, now))
  /\ rest' = [rest EXCEPT ![w].pc = "invalidate", ![w].bumped = TRUE]
  /\ UNCHANGED <<cfg, zoneCache, last, dns, nreq, call, resolver>>

(***************************************************************************)
(* The zone cache: get() returns the snapshot or nil, set(list) installs   *)
(* a snapshot, invalidate() marks it absent, and the snapshot expires.     *)
(***************************************************************************)
NoSnapshot == [present |-> FALSE, zones |-> <<>>]
Snapshot(zones) == [present |-> TRUE, zones |-> zones]

Expire ==
  /\ zoneCache.present
  /\ zoneCache' = NoSnapshot
  /\ UNCHANGED <<db, cfg, rest, last, dns, nreq, call, resolver>>

(***************************************************************************)
(* Server.lookup: the zone list comes from the zone cache or, when get()   *)
(* returns nil, from the store, and is then installed with set().  The     *)
(* three calls are three steps of the query's goroutine.                   *)
(***************************************************************************)
\* db.Order("length(name) desc").Find(&zones)
RECURSIVE LongestFirst(_)
LongestFirst(rows) ==
  IF rows = {} THEN <<>>
  ELSE LET top == {r \in rows : \A x \in rows : Len(x.name) <= Len(r.name)}
           r == MinId(top)
       IN <<r>> \o LongestFirst(rows \ {r})

\* the first zone of the list whose name is a suffix of the question name
MatchZone(zones, qname) ==
  LET hit == {i \in DOMAIN zones : HasSuffix(qname, Fqdn(ToLower(zones[i].name)))}
  IN IF hit = {} THEN NoZone
     ELSE zones[CHOOSE i \in hit : \A j \in hit : i <= j]

QNames == {NameWB, <<"W", ".", "a">>, <<"b", "a", ".">>}

NoQuery == [pc |-> "idle", qname |-> <<>>, zones |-> <<>>, zone |-> NoZone, hit |-> FALSE]

lookupGet(q) ==
  /\ dns.pc = "idle"
  /\ LET qname == ToLower(Fqdn(q))
     IN IF zoneCache.present
        THEN dns' = [NoQuery EXCEPT !.zone = MatchZone(zoneCache.zones, qname),
                                    !.hit = TRUE]
        ELSE dns' = [NoQuery EXCEPT !.pc = "find", !.qname = qname]
  /\ UNCHANGED <<db, cfg, zoneCache, rest, last, nreq, call, resolver>>

lookupFind ==
  /\ dns.pc = "find"
  /\ dns' = [dns EXCEPT !.pc = "set", !.zones = LongestFirst(db.zones)]
  /\ UNCHANGED <<db, cfg, zoneCache, rest, last, nreq, call, resolver>>

lookupSet ==
  /\ dns.pc = "set"
  /\ zoneCache' = Snapshot(dns.zones)
  /\ dns' = [NoQuery EXCEPT !.zone = MatchZone(dns.zones, dns.qname)]
  /\ UNCHANGED <<db, cfg, rest, last, nreq, call, resolver>>

(***************************************************************************)
(* Server.InvalidateZoneCache, then the handler's response                 *)
(***************************************************************************)
Invalidate(w) ==
  /\ rest[w].pc = "invalidate"
  /\ zoneCache' = NoSnapshot
  /\ last' = [last EXCEPT ![w] =
       [op |-> rest[w].op, status |-> rest[w].status, invalidated |-> TRUE,
        committed |-> rest[w].committed, bumped |-> rest[w].bumped,
        zone |-> rest[w].zone, arg |-> rest[w].arg]]
  /\ rest' = [rest EXCEPT ![w] = Idle]
  /\ UNCHANGED <<db, cfg, dns, nreq, call, resolver>>

(***************************************************************************)
(* States of the parts a specification leaves out: no function applied,    *)
(* nothing cached, no query in flight.                                     *)
(***************************************************************************)
NoCall == [fn |-> "", done |-> FALSE]
EmptyCache == {}
NoQueries == <<>>

Workers == {1}

\* The control plane alone, one request at a time.  The zone cache is
\* absent or holds the list a DNS query installed.
Init ==
  /\ db \in Seeds
  /\ cfg \in [auto : BOOLEAN, defaultTTL : {0, 300}]
  /\ zoneCache \in {NoSnapshot, Snapshot(LongestFirst(db.zones))}
  /\ rest = [w \in Workers |-> Idle]
  /\ last = [w \in Workers |-> NoResponse]
  /\ dns = NoQuery
  /\ nreq = [w \in Workers |-> [started |-> 0, mutations |-> 0]]
  /\ call = NoCall
  /\ rcache = EmptyCache /\ serve = NoQueries /\ clock = 0

Next ==
  \E w \in DOMAIN rest :
    \/ \E name \in ZoneNameInputs : createZone(w, name)
    \/ \E zid \in ZoneIdInputs : deleteZone(w, zid)
    \/ \E zid \in ZoneIdInputs, req \in RRSetReqs : createRRSet(w, zid, req)
    \/ \E zid \in ZoneIdInputs, rid \in RRSetIdInputs, req \in RRSetReqs :
         updateRRSet(w, zid, rid, req)
    \/ \E zid \in ZoneIdInputs, rid \in RRSetIdInputs : deleteRRSet(w, zid, rid)
    \/ \E zid \in ZoneIdInputs, mode \in Modes, body \in JSONBodies :
         importZoneJSON(w, zid, mode, body)
    \/ \E zid \in ZoneIdInputs, mode \in Modes, body \in BINDBodies :
         importZoneBIND(w, zid, mode, body)
    \/ \E zid \in ZoneIdInputs, mode \in Modes : importZoneOther(w, zid, mode)
    \/ \E body \in SyncBodies : syncImport(w, body)
    \/ BumpRead(w)
    \/ BumpWrite(w)
    \/ Invalidate(w)

Spec == Init /\ [][Next]_vars

\* DNS queries interleaved with the requests that change the zone list
NextDNS ==
  \/ \E w \in DOMAIN rest :
       \/ \E name \in ZoneNameInputs : createZone(w, name)
       \/ \E zid \in ZoneIdInputs : deleteZone(w, zid)
       \/ \E body \in SyncBodies : syncImport(w, body)
       \/ Invalidate(w)
  \/ \E q \in QNames : lookupGet(q)
  \/ lookupFind
  \/ lookupSet
  \/ Expire

SpecDNS == Init /\ [][NextDNS]_vars

\* two control plane workers on the RRSets of zone "a."
ConcWorkers == {1, 2}

InitConc ==
  /\ db = SeedA
  /\ cfg \in [auto : BOOLEAN, defaultTTL : {0, 300}]
  /\ zoneCache = NoSnapshot
  /\ rest = [w \in ConcWorkers |-> Idle]
  /\ last = [w \in ConcWorkers |-> NoResponse]
  /\ dns = NoQuery
  /\ nreq = [w \in ConcWorkers |-> [started |-> 0, mutations |-> 0]]
  /\ call = NoCall
  /\ rcache = EmptyCache /\ serve = NoQueries /\ clock = 0

NextConc ==
  \E w \in DOMAIN rest :
    \/ \E zid \in ZoneIdInputs, req \in RRSetReqs : createRRSet(w, zid, req)
    \/ \E zid \in ZoneIdInputs, rid \in RRSetIdInputs : deleteRRSet(w, zid, rid)
    \/ BumpRead(w)
    \/ BumpWrite(w)
    \/ Invalidate(w)

SpecConc == InitConc /\ [][NextConc]_vars
(***************************************************************************)
(* Properties.                                                             *)


(***************************************************************************)
(* GET /zones/:id/export?format=json followed by POST /zones/:id/import    *)
(* with mode=replace and the exported document as the body.                *)
(***************************************************************************)
\* c.JSON(http.StatusOK, z) with RRSets.Records preloaded
exportZone(d, zid) == [id |-> 0, bad |-> FALSE, rrsets |-> ExportRRSets(d, zid)]

reimportZone(w, zid) == importZoneJSON(w, zid, "replace", exportZone(db, zid))

\* zoneio.ToBind(&z): one line for each record, the owner name written
\* without its last dot.  The $ORIGIN line in front of them names the zone
\* with one dot at its end, the origin ImportBIND gives the parser anyway.
RECURSIVE ToBind(_)
ToBind(rrsets) ==
  IF rrsets = <<>> THEN <<>>
  ELSE LET rs == Head(rrsets)
       IN [i \in DOMAIN rs.records |->
             RR(TrimSuffix(rs.name, Dot), ToUpperType(rs.type), rs.ttl,
                rs.records[i].data)] \o ToBind(Tail(rrsets))

\* GET /zones/:id/export?format=bind, then POST /zones/:id/import with
\* format=bind, mode=replace and the exported text as the body
reimportBIND(w, zid) ==
  importZoneBIND(w, zid, "replace",
    [id |-> 0, text |-> ToBind(ExportRRSets(db, zid))])

InitRoundTrip ==
  /\ db \in Seeds \cup {MasterStore}
  /\ cfg \in [auto : BOOLEAN, defaultTTL : {0, 300}]
  /\ zoneCache \in {NoSnapshot, Snapshot(LongestFirst(db.zones))}
  /\ rest = [w \in Workers |-> Idle]
  /\ last = [w \in Workers |-> NoResponse]
  /\ dns = NoQuery
  /\ nreq = [w \in Workers |-> [started |-> 0, mutations |-> 0]]
  /\ call = NoCall
  /\ rcache = EmptyCache /\ serve = NoQueries /\ clock = 0

NextRoundTrip ==
  \E w \in DOMAIN rest :
    \/ \E zid \in ZoneIdInputs : reimportZone(w, zid)
    \/ \E zid \in ZoneIdInputs : reimportBIND(w, zid)
    \/ BumpRead(w)
    \/ BumpWrite(w)
    \/ Invalidate(w)

SpecRoundTrip == InitRoundTrip /\ [][NextRoundTrip]_vars


(***************************************************************************)
(* selectGeoRecords(recs, ip, g).  An optional attribute, a pointer in the *)
(* code, is <<>> when nil and <<v>> when set; a subnet string is what      *)
(* netip.ParsePrefix makes of it: whether it parses and the addresses it   *)
(* contains.  The client address 0 is the invalid netip.Addr{}.            *)
(***************************************************************************)
EqualFold(a, b) == ToLower(a) = ToLower(b)

GeoAttrs(data, subnet, asn, country, continent) ==
  [data |-> data, subnet |-> subnet, asn |-> asn, country |-> country,
   continent |-> continent]

GeoRecords ==
  { GeoAttrs("1", <<>>, <<>>, <<>>, <<>>),
    GeoAttrs("2", <<[ok |-> TRUE, ips |-> {1}]>>, <<>>, <<>>, <<>>),
    GeoAttrs("3", <<[ok |-> FALSE, ips |-> {}]>>, <<>>, <<<<"a", "b">>>>, <<>>),
    GeoAttrs("4", <<>>, <<1>>, <<>>, <<>>),
    GeoAttrs("5", <<>>, <<0>>, <<>>, <<>>),
    GeoAttrs("6", <<>>, <<>>, <<<<"A", "B">>>>, <<>>),
    GeoAttrs("7", <<>>, <<>>, <<<<>>>>, <<>>),
    GeoAttrs("8", <<>>, <<>>, <<>>, <<<<"b", "a">>>>),
    GeoAttrs("9", <<>>, <<>>, <<>>, <<<<>>>>) }

ClientIPs == {0, 1, 2}
GeoInfos == [asn : {0, 1}, country : {<<>>, <<"a", "b">>}, continent : {<<>>, <<"B", "A">>}]

IsGeneric(r) ==
  r.country = <<>> /\ r.continent = <<>> /\ r.asn = <<>> /\ r.subnet = <<>>

\* a loop body that compares the country and continent codes as they are
GeoBucketLoose(r, ip, g) ==
  IF r.subnet # <<>> /\ r.subnet[1].ok /\ ip \in r.subnet[1].ips THEN "subnet"
  ELSE IF r.asn # <<>> /\ g.asn # 0 /\ r.asn[1] = g.asn THEN "asn"
  ELSE IF r.country # <<>> /\ EqualFold(r.country[1], g.country) THEN "country"
  ELSE IF r.continent # <<>> /\ EqualFold(r.continent[1], g.continent)
  THEN "continent"
  ELSE IF IsGeneric(r) THEN "generic"
  ELSE ""

\* the slice the loop body appends the record to
GeoBucket(r, ip, g) ==
  IF r.subnet # <<>> /\ r.subnet[1].ok /\ ip \in r.subnet[1].ips THEN "subnet"
  ELSE IF r.asn # <<>> /\ g.asn # 0 /\ r.asn[1] = g.asn THEN "asn"
  ELSE IF r.country # <<>> /\ g.country # <<>> /\ EqualFold(r.country[1], g.country)
  THEN "country"
  ELSE IF r.continent # <<>> /\ g.continent # <<>>
          /\ EqualFold(r.continent[1], g.continent)
  THEN "continent"
  ELSE IF IsGeneric(r) THEN "generic"
  ELSE ""

selectGeoRecords(recs, ip, g) ==
  LET out == SelectSeq(recs, IsGeneric)
      match(b) == SelectSeq(recs, LAMBDA r : GeoBucket(r, ip, g) = b)
  IN IF Len(recs) = 0 THEN [recs |-> recs, rule |-> "none"]
     ELSE IF ip = 0
     THEN IF Len(out) > 0 THEN [recs |-> out, rule |-> "generic"]
          ELSE [recs |-> recs, rule |-> "all"]
     ELSE IF Len(match("subnet")) > 0 THEN [recs |-> match("subnet"), rule |-> "subnet"]
     ELSE IF Len(match("asn")) > 0 THEN [recs |-> match("asn"), rule |-> "asn"]
     ELSE IF Len(match("country")) > 0 THEN [recs |-> match("country"), rule |-> "country"]
     ELSE IF Len(match("continent")) > 0
     THEN [recs |-> match("continent"), rule |-> "continent"]
     ELSE IF Len(match("generic")) > 0 THEN [recs |-> match("generic"), rule |-> "generic"]
     ELSE [recs |-> recs, rule |-> "all"]

InitGeo ==
  /\ db = EmptyDB
  /\ cfg = [auto |-> FALSE, defaultTTL |-> 0]
  /\ zoneCache = NoSnapshot
  /\ rest = [w \in Workers |-> Idle]
  /\ last = [w \in Workers |-> NoResponse]
  /\ dns = NoQuery
  /\ nreq = [w \in Workers |-> [started |-> 0, mutations |-> 0]]
  /\ call \in [fn : {"selectGeoRecords"}, done : {FALSE},
               recs : UNION {[1..k -> GeoRecords] : k \in 0..MaxRecs},
               ip : ClientIPs, g : GeoInfos, out : {<<>>}, rule : {""}]
  /\ rcache = EmptyCache /\ serve = NoQueries /\ clock = 0

applySelectGeoRecords ==
  /\ call.fn = "selectGeoRecords" /\ ~call.done
  /\ LET res == selectGeoRecords(call.recs, call.ip, call.g)
     IN call' = [call EXCEPT !.done = TRUE, !.out = res.recs, !.rule = res.rule]
  /\ UNCHANGED <<db, cfg, zoneCache, rest, last, dns, nreq, resolver>>

NextGeo == applySelectGeoRecords

SpecGeo == InitGeo /\ [][NextGeo]_vars


(***************************************************************************)
(* The response cache: get(key) returns the message stored under the key   *)
(* until its TTL has passed, set(key, msg, ttl) stores a copy and, when     *)
(* the cache is full, removes the oldest entry.  Its size is the one       *)
(* NewServer passes to cache.New: cfg.Performance.CacheSize as config.Load *)
(* returned it.                                                            *)
(***************************************************************************)
\* config.Load on a file whose performance.cache_size is n (n >= 0)
Load(n) == [auto |-> FALSE, defaultTTL |-> 0, cache_size |-> n,
            cacheSize |-> IF n = 0 THEN 1024 ELSE n]

CacheGet(c, key, now) == {e \in c : e.key = key /\ now < e.expires}

CacheSet(c, key, msg, ttl, now) ==
  LET others == {e \in c : e.key # key}
      oldest == CHOOSE e \in others : \A x \in others : e.seq <= x.seq
      kept == IF Cardinality(others) >= cfg.cacheSize
              THEN others \ {oldest} ELSE others
      seq == IF c = {} THEN 1
             ELSE 1 + (CHOOSE n \in {e.seq : e \in c} : \A e \in c : e.seq <= n)
  IN kept \cup {[key |-> key, msg |-> msg, expires |-> now + ttl, seq |-> seq]}

\* geoip.NewNoop().Lookup(ip)
GeoNoop == [asn |-> 0, country |-> <<>>, continent |-> <<>>]

(***************************************************************************)
(* Server.serveDNS(w, r), one query from its first line to its last        *)
(***************************************************************************)
NegativeTTL == 300

Question(name, qtype) == [name |-> name, qtype |-> qtype]
Query(id, name, qtype, ip) == [id |-> id, question |-> Question(name, qtype), ip |-> ip]

\* m.SetReply(r)
SetReply(r) == [id |-> r.id, question |-> r.question, rcode |-> "NOERROR", answer |-> <<>>]

\* fmt.Sprintf("%s|%d|%s", strings.ToLower(q.Name), q.Qtype, cacheScope)
CacheKey(r) == [name |-> ToLower(r.question.name), qtype |-> r.question.qtype, scope |-> r.ip]

\* a hit that sends the cached message as it is
HitResponseAsCached(cached, r) == cached

\* resp := cached.Copy(); resp.Id = r.Id; resp.Question = r.Question
HitResponse(cached, r) == [cached EXCEPT !.id = r.id, !.question = r.question]

\* a server that does not cache its own NXDOMAIN
CacheNegativeSkip(c, key, m, now) == c

\* s.cache.Set(key, m.Copy(), 5*time.Minute)
CacheNegative(c, key, m, now) == CacheSet(c, key, m, NegativeTTL, now)

\* the records of an RRSet, in the order of their ids, with their attributes
Preload(d, rid) ==
  LET rows == ById({x \in d.r_data : x.rr_set_id = rid})
  IN [i \in DOMAIN rows |->
        GeoAttrs(rows[i].data, <<>>, <<>>,
                 IF rows[i].geo = "" THEN <<>> ELSE <<<<rows[i].geo>>>>, <<>>)]

\* "@" as a CNAME target stands for the apex
Target(data, zone) ==
  IF TrimSpace(data.txt) = At THEN [data EXCEPT !.txt = Fqdn(ToLower(zone.name))]
  ELSE data

AnswerRR(qname, ttl, type, data) == [name |-> qname, ttl |-> ttl, type |-> type, data |-> data]

\* Server.lookup(r, q, clientIP) on the zone list it got; rule holds what
\* the call assigned to s.lastRule, if it came to the Geo selection
lookup(d, zones, q, ip) ==
  LET qname == ToLower(Fqdn(q.name))
      qtype == q.qtype
      zone == MatchZone(zones, qname)
      found == RRSetByKey(d, zone.id, qname, ToUpperType(qtype))
      set == MinId(found)
      cnames == RRSetByKey(d, zone.id, qname, "CNAME")
      cnameSet == MinId(cnames)
      crecs == Preload(d, cnameSet.id)
      sel == selectGeoRecords(Preload(d, set.id), ip, GeoNoop)
      recs == sel.recs
  IN IF zone = NoZone THEN [err |-> TRUE, answers |-> <<>>, ttl |-> 0, rule |-> <<>>]
     ELSE IF found = {}
     THEN IF cnames # {}
          THEN [err |-> FALSE, ttl |-> cnameSet.ttl, rule |-> <<>>,
                answers |-> [i \in DOMAIN crecs |->
                   AnswerRR(qname, cnameSet.ttl, "CNAME", Target(crecs[i].data, zone))]]
          ELSE [err |-> TRUE, answers |-> <<>>, ttl |-> 0, rule |-> <<>>]
     ELSE [err |-> FALSE, ttl |-> set.ttl, rule |-> <<sel.rule>>,
           answers |-> [i \in DOMAIN recs |->
              AnswerRR(qname, set.ttl, ToUpperType(qtype),
                       IF qtype = "CNAME" THEN Target(recs[i].data, zone)
                       ELSE recs[i].data)]]

\* what the forwarder's resolver returns: an error, or a message
Upstream == {"error", "NOERROR", "NXDOMAIN"}

\* s.resolver.Exchange(fwd, forwarder): fwd carries the identifier that
\* SetQuestion drew (0 here, no request has it) and the question
\* dns.Fqdn(q.Name); the upstream's message answers fwd
Forward(q, rcode) ==
  [id |-> 0, question |-> Question(Fqdn(q.name), q.qtype), rcode |-> rcode,
   answer |-> IF rcode = "NOERROR"
              THEN <<[name |-> Fqdn(q.name), ttl |-> 60, type |-> q.qtype,
                      data |-> Plain("9")]>>
              ELSE <<>>]

\* a forwarder that hands the upstream's message on as it came
RelayAsReceived(in, r) == in

\* in.Id = r.Id; w.WriteMsg(in)
Relay(in, r) == [in EXCEPT !.id = r.id]

\* one exchange: the request, the message written, where it came from,
\* whether the store or the zone cache was read, and the upstream queries
\* issued with the message that came back
Exchange(r, reply, from, touched, asked, in) ==
  [req |-> r, reply |-> reply, from |-> from, touched |-> touched, at |-> clock,
   asked |-> asked, in |-> in]

serveDNS(r, up) ==
  /\ Len(serve) < MaxQueries
  /\ LET m == SetReply(r)
         q == r.question
         key == CacheKey(r)
         hit == CacheGet(rcache, key, clock)
         cached == (CHOOSE e \in hit : TRUE).msg
         zones == IF zoneCache.present THEN zoneCache.zones ELSE LongestFirst(db.zones)
         res == lookup(db, zones, q, r.ip)
         local == [m EXCEPT !.answer = res.answers]
         in == Forward(q, up)
         nx == [m EXCEPT !.rcode = "NXDOMAIN"]
     IN IF hit # {}
        THEN /\ serve' = Append(serve, Exchange(r, HitResponse(cached, r), "cache", FALSE, 0, <<>>))
             /\ UNCHANGED <<rcache, zoneCache>>
        ELSE /\ zoneCache' = Snapshot(zones)
             /\ IF ~res.err /\ Len(res.answers) > 0
                THEN /\ serve' = Append(serve, Exchange(r, local, "local", TRUE, 0, <<>>))
                     /\ rcache' = IF res.ttl > 0
                                  THEN CacheSet(rcache, key, local, res.ttl, clock)
                                  ELSE rcache
                ELSE IF cfg.forwarder /\ up # "error"
                THEN /\ serve' = Append(serve, Exchange(r, Relay(in, r), "forward",
                                                         TRUE, 1, <<in>>))
                     /\ rcache' = IF up # "NOERROR"
                                  THEN CacheSet(rcache, key, Relay(in, r),
                                                NegativeTTL, clock)
                                  ELSE rcache
                ELSE /\ serve' = Append(serve,
                          Exchange(r, nx, "nxdomain", TRUE,
                                   IF cfg.forwarder THEN 1 ELSE 0, <<>>))
                     /\ rcache' = CacheNegative(rcache, key, nx, clock)
  /\ UNCHANGED <<db, cfg, rest, last, dns, nreq, call, clock>>

\* time passes
Tick ==
  /\ clock + 150 <= MaxClock
  /\ clock' = clock + 150
  /\ UNCHANGED <<db, cfg, zoneCache, rest, last, dns, nreq, call, rcache, serve>>

NameCA == <<"c", ".", "a", ".">>
NameDA == <<"d", ".", "a", ".">>
NameEA == <<"e", ".", "a", ".">>

\* zone a. with an A RRSet at w.a., CNAME RRSets at c.a. (two targets), at
\* d.a. (the apex shorthand) and at e.a. (no record)
ServeStore ==
  LET d0 == CreateZoneRow(EmptyDB, ZoneA).db
      d1 == CreateRRSetRow(d0, 1, NameWA, "A", 300,
                           <<Rec(Plain("1")), GeoRec(Plain("2"), "US")>>).db
      d2 == CreateRRSetRow(d1, 1, NameCA, "CNAME", 600,
                           <<Rec(Plain("3")), Rec(Plain("4"))>>).db
      d3 == CreateRRSetRow(d2, 1, NameDA, "CNAME", 0, <<Rec(Plain("@"))>>).db
  IN CreateRRSetRow(d3, 1, NameEA, "CNAME", 300, <<>>).db

Queries ==
  { Query(1, NameWB, "A", 1), Query(2, <<"W", ".", "b", ".">>, "A", 1),
    Query(1, NameWB, "A", 0), Query(2, NameWA, "A", 1), Query(1, NameWA, "MX", 1),
    Query(2, NameCA, "A", 1), Query(1, NameDA, "A", 1), Query(2, NameEA, "A", 1) }

InitServe ==
  /\ db \in {ServeStore, EmptyDB}
  /\ cfg \in {[forwarder |-> f] @@ Load(n) : f \in BOOLEAN, n \in {0, CacheSize}}
  /\ zoneCache = NoSnapshot
  /\ rest = [w \in Workers |-> Idle]
  /\ last = [w \in Workers |-> NoResponse]
  /\ dns = NoQuery
  /\ nreq = [w \in Workers |-> [started |-> 0, mutations |-> 0]]
  /\ call = NoCall
  /\ rcache = EmptyCache /\ serve = NoQueries /\ clock = 0

NextServe ==
  \/ \E r \in Queries, up \in Upstream : serveDNS(r, up)
  \/ Tick

SpecServe == InitServe /\ [][NextServe]_vars

(***************************************************************************)
(* The normalization functions of the write boundaries, each applied to a  *)
(* name and then to its own output.                                        *)
(***************************************************************************)
NameChars == {"w", "A", ".", "@", " "}
NameInputs == UNION {[1..k -> NameChars] : k \in 0..MaxNameLen}
ZoneInputs == {ZoneA, <<"A">>}

InitNorm ==
  /\ db = EmptyDB
  /\ cfg = [auto |-> FALSE, defaultTTL |-> 0]
  /\ zoneCache = NoSnapshot
  /\ rest = [w \in Workers |-> Idle]
  /\ last = [w \in Workers |-> NoResponse]
  /\ dns = NoQuery
  /\ nreq = [w \in Workers |-> [started |-> 0, mutations |-> 0]]
  /\ call \in [fn : {"fqdn", "NormalizeRRSetName", "NormalizeFQDN"},
               done : {FALSE}, name : NameInputs, zone : ZoneInputs,
               err : {FALSE}, once : {<<>>}, twice : {<<>>}]
  /\ rcache = EmptyCache /\ serve = NoQueries /\ clock = 0

Applied(once, twice, err) ==
  /\ call' = [call EXCEPT !.done = TRUE, !.once = once, !.twice = twice, !.err = err]
  /\ UNCHANGED <<db, cfg, zoneCache, rest, last, dns, nreq, resolver>>

applyFqdn ==
  /\ call.fn = "fqdn" /\ ~call.done
  /\ LET once == fqdn(call.name, call.zone)
     IN Applied(once, fqdn(once, call.zone), FALSE)

applyNormalizeRRSetName ==
  /\ call.fn = "NormalizeRRSetName" /\ ~call.done
  /\ LET once == NormalizeRRSetName(call.name, call.zone)
     IN Applied(once.name, NormalizeRRSetName(once.name, call.zone).name, once.err)

applyNormalizeFQDN ==
  /\ call.fn = "NormalizeFQDN" /\ ~call.done
  /\ LET once == NormalizeFQDN(call.name)
     IN Applied(once, NormalizeFQDN(once), FALSE)

NextNorm == applyFqdn \/ applyNormalizeRRSetName \/ applyNormalizeFQDN

SpecNorm == InitNorm /\ [][NextNorm]_vars

(***************************************************************************)
AllIdle == \A w \in DOMAIN rest : rest[w].pc = "idle"

ZoneScoped(op) ==
  op \in {"createRRSet", "updateRRSet", "deleteRRSet", "importZone"}

SOASets(d, zid) == {s \in d.rr_sets : s.zone_id = zid /\ s.type = "SOA"}

\* the serials of the SOA records of a zone
Serials(d, zid) ==
  {r.data.serial : r \in {x \in d.r_data :
                            x.rr_set_id \in {s.id : s \in SOASets(d, zid)}}}

\* C1: once every mutation has committed and returned from
\* InvalidateZoneCache, a snapshot that the zone cache offers to the
\* queries starting from then on was not read before those commits: it is
\* the zone list of the store.
C1_NoStaleSnapshot ==
  (AllIdle /\ zoneCache.present) => zoneCache.zones = LongestFirst(db.zones)

\* C2: a handler that answers with a success status has called
\* InvalidateZoneCache, after the commit and, for a zone-scoped mutation,
\* after the SOA bump; a handler that answers 4xx or 5xx has not called it.
C2_InvalidateAfterCommit ==
  \A w \in DOMAIN rest :
    /\ last[w].status \in 200..299 =>
         /\ last[w].invalidated
         /\ last[w].committed
         /\ ZoneScoped(last[w].op) => last[w].bumped
    /\ last[w].status >= 400 => ~last[w].invalidated
    /\ rest[w].pc = "invalidate" =>
         /\ rest[w].committed
         /\ ZoneScoped(rest[w].op) => rest[w].bumped

C2_Witness ==
  \E w \in DOMAIN rest :
    /\ last[w].op = "importZone"
    /\ last[w].status = 204
    /\ last[w].invalidated
    /\ ~zoneCache.present

\* C3: with auto_on_missing, after a committed zone-scoped mutation and its
\* SOA bump the zone has exactly one SOA RRSet, and its serial is greater
\* than the serial the zone had before.
C3_OneSOAWithGreaterSerial ==
  \A w \in DOMAIN rest :
    (rest[w].pc = "invalidate" /\ ZoneScoped(rest[w].op) /\ cfg.auto) =>
      LET zid == rest[w].zone.id
      IN /\ Cardinality(SOASets(db, zid)) = 1
         /\ \A new \in Serials(db, zid), old \in Serials(rest[w].pre, zid) :
              old # NoSerial => new > old

\* C4: when k mutations of zone "a." have completed, one after another or
\* concurrently, the serial of its SOA, which was N, is N + k.
C4_SerialCountsMutations ==
  (AllIdle /\ \E s \in db.rr_sets : s.id = 1 /\ s.type = "SOA") =>
    Serials(db, 1) = {n + nreq[1].mutations + nreq[2].mutations :
                        n \in Serials(SeedA, 1)}

\* the catalog a store or a payload shows: zones by name with their RRSets,
\* templates by name with their records
Catalog(data) ==
  [zones |-> {[name |-> data.zones[i].name,
               rrsets |-> {data.zones[i].rrsets[j] :
                             j \in DOMAIN data.zones[i].rrsets}] :
                i \in DOMAIN data.zones},
   templates |-> {data.templates[i] : i \in DOMAIN data.templates}]

SyncBody(id) == (CHOOSE b \in SyncBodies : b.id = id).data

\* C5: after a successful /sync/import the slave's catalog equals the
\* catalog of the payload.
C5_SlaveEqualsMaster ==
  \A w \in DOMAIN rest :
    (rest[w].pc = "invalidate" /\ rest[w].op = "syncImport") =>
      Catalog(syncExport(db)) = Catalog(SyncBody(rest[w].arg.id))

\* the request that worker w takes up in this step, answered at once or
\* carried on to the SOA bump and the invalidation
Starts(w) == nreq'[w].started = nreq[w].started + 1
Request(w) == IF rest'[w].pc = "idle" THEN last'[w] ELSE rest'[w]

\* C6: a /sync/import in which a step fails answers with an error, leaves
\* the store as it was and does not invalidate the zone cache; a catalog
\* that holds one (name, type) twice in a zone is such a request.
C6_SyncAllOrNothing ==
  [][\A w \in DOMAIN rest :
       (Starts(w) /\ Request(w).op = "syncImport") =>
         /\ Request(w).arg.id = 2 => rest'[w].pc = "idle" /\ last'[w].status = 500
         /\ (rest'[w].pc = "idle" /\ last'[w].status >= 400) =>
              /\ db' = db
              /\ zoneCache' = zoneCache
              /\ ~last'[w].invalidated]_vars

C6_Witness ==
  \E w \in DOMAIN rest :
    /\ last[w].op = "syncImport"
    /\ last[w].status = 500
    /\ last[w].arg.id = 2
    /\ db = SeedAB
    /\ zoneCache.present

Key(s) == [name |-> s.name, type |-> s.type]

ZoneSets(d, zid) == {s \in d.rr_sets : s.zone_id = zid}

\* the (name, type) pairs of a JSON payload, as the zone names them
PayloadKeys(rrsets, zname) ==
  {[name |-> NormalizeRRSetName(rrsets[i].name, zname).name,
    type |-> ToUpperType(rrsets[i].type)] : i \in DOMAIN rrsets}

\* C7: after a successful JSON import with mode=replace the RRSets of the
\* zone, the SOA aside, are those of the payload, with the payload's
\* records, and the RRSets that the payload does not name are gone with
\* their records.
C7_ReplaceLeavesPayloadOnly ==
  \A w \in DOMAIN rest :
    (/\ rest[w].pc = "invalidate"
     /\ rest[w].op = "importZone"
     /\ rest[w].arg.format = "json"
     /\ rest[w].arg.mode = "replace") =>
      LET zid == rest[w].zone.id
          rrsets == rest[w].arg.rrsets
          want == PayloadKeys(rrsets, rest[w].zone.name)
      IN /\ {Key(s) : s \in {x \in ZoneSets(db, zid) : x.type # "SOA"}}
              = {k \in want : k.type # "SOA"}
         /\ \A s \in ZoneSets(db, zid) :
              s.type # "SOA" =>
                \E i \in DOMAIN rrsets :
                  /\ Key(s) \in PayloadKeys(<<rrsets[i]>>, rest[w].zone.name)
                  /\ ExportRecords(db, s.id) = rrsets[i].records
         /\ \A s \in ZoneSets(rest[w].pre, zid) :
              (Key(s) \notin want /\ s.type # "SOA") =>
                /\ s.id \notin RRSetIDs(db, zid)
                /\ \A r \in db.r_data : r.rr_set_id # s.id

C7_Witness ==
  \E w \in DOMAIN rest :
    /\ rest[w].pc = "invalidate"
    /\ rest[w].op = "importZone"
    /\ rest[w].arg.format = "json"
    /\ rest[w].arg.mode = "replace"
    /\ rest[w].arg.id = 2
    /\ \E s \in ZoneSets(rest[w].pre, rest[w].zone.id) : s.type = "MX"
    /\ \E s \in ZoneSets(db, rest[w].zone.id) : s.type = "A"

BindBody(id) == (CHOOSE b \in BINDBodies : b.id = id).text

\* the lines of a text that are records
Records(text) == SelectSeq(text, LAMBDA l : ~l.syntax)

\* what an import payload asks for: its RRSets with the names and types as
\* the zone writes them and the TTL after the default_ttl fallback; for a
\* BIND text the (name, type) buckets of all its records
PayloadSets(arg, zname, defaultTTL) ==
  IF arg.format = "json"
  THEN {[name |-> NormalizeRRSetName(arg.rrsets[i].name, zname).name,
         type |-> ToUpperType(arg.rrsets[i].type),
         ttl |-> WithDefaultTTL(arg.rrsets[i].ttl, defaultTTL),
         records |-> arg.rrsets[i].records] : i \in DOMAIN arg.rrsets}
  ELSE LET b == BindBuckets(Records(BindBody(arg.id)), Fqdn(zname), defaultTTL, <<>>)
       IN {b[i] : i \in DOMAIN b}

\* records compared without the SOA serial
NoSerials(recs) == [i \in DOMAIN recs |-> [recs[i] EXCEPT !.data.serial = NoSerial]]

\* C8: after a successful import with mode=upsert the RRSets that the
\* payload does not name keep their TTL and records, and every (name, type)
\* of the payload has the payload's TTL and records (the SOA serial bump
\* aside).
C8_UpsertFrame ==
  \A w \in DOMAIN rest :
    (/\ rest[w].pc = "invalidate"
     /\ rest[w].op = "importZone"
     /\ rest[w].arg.mode = "upsert") =>
      LET zid == rest[w].zone.id
          want == PayloadSets(rest[w].arg, rest[w].zone.name, cfg.defaultTTL)
      IN /\ \A s \in ZoneSets(rest[w].pre, zid) :
              Key(s) \notin {Key(p) : p \in want} =>
                /\ s \in db.rr_sets
                /\ NoSerials(ExportRecords(db, s.id))
                     = NoSerials(ExportRecords(rest[w].pre, s.id))
         /\ \A p \in want :
              \E s \in ZoneSets(db, zid) :
                /\ Key(s) = Key(p)
                /\ s.ttl = p.ttl
                /\ NoSerials(ExportRecords(db, s.id)) = NoSerials(p.records)

\* a name written in full that is neither the apex of the zone nor below it
ForeignName(name, zname) ==
  LET n == ToLower(name)
      z == ToLower(zname)
  IN HasSuffix(n, Dot) /\ n # z /\ ~HasSuffix(n, Dot \o z)

HasForeignName(rrsets, zname) ==
  \E i \in DOMAIN rrsets : ForeignName(rrsets[i].name, zname)

HasSyntaxError(text) == \E i \in DOMAIN text : text[i].syntax

\* C10: a BIND import of a text with a syntax error is answered 400 and
\* commits nothing: no such request reaches the SOA bump or the
\* invalidation.
C10_SyntaxErrorRejected ==
  \A w \in DOMAIN rest :
    /\ (rest[w].op = "importZone" /\ rest[w].arg.format = "bind") =>
         ~HasSyntaxError(BindBody(rest[w].arg.id))
    /\ (/\ last[w].op = "importZone"
        /\ last[w].arg.format = "bind"
        /\ last[w].zone # NoZone
        /\ HasSyntaxError(BindBody(last[w].arg.id))) =>
         last[w].status = 400 /\ ~last[w].invalidated

\* the zone of an RRSet, when the store has it
ZoneOf(d, s) == {z \in d.zones : z.id = s.zone_id}

\* the name is written in full and is the apex of the zone or below it
InZone(name, zname) ==
  LET z == Fqdn(ToLower(zname))
  IN HasSuffix(name, Dot) /\ (name = z \/ HasSuffix(name, Dot \o z))

\* C11: every stored RRSet name ends in a dot and is the name of its zone
\* or a subdomain of it.
C11_NamesInZone ==
  \A s \in db.rr_sets : \A z \in ZoneOf(db, s) : InZone(s.name, z.name)

\* an RRSet of the store that has this zone, name and type
SameKey(d, zid, name, typ) ==
  {s \in d.rr_sets : s.zone_id = zid /\ s.name = name /\ s.type = typ}

\* worker w handles a POST /zones/:id/rrsets for a (name, type) the zone has
DuplicatePost(w, s) ==
  \E zid \in ZoneIdInputs, req \in RRSetReqs :
    /\ createRRSet(w, zid, req)
    /\ ~req.bad
    /\ \E z \in db.zones :
         /\ z.id = zid
         /\ s \in SameKey(db, zid, Fqdn(ToLower(fqdn(req.name, z.name))),
                          ToUpperType(req.type))

C13_ZoneNamesNormalized ==
  /\ \A z \in db.zones : z.name = Fqdn(ToLower(z.name))
  /\ \A y, z \in db.zones :
       Fqdn(ToLower(y.name)) = Fqdn(ToLower(z.name)) => y = z

\* C14: every record of the store belongs to an RRSet of the store and every
\* RRSet to a zone of the store.
C14_OwnershipHierarchical ==
  /\ \A r \in db.r_data : \E s \in db.rr_sets : s.id = r.rr_set_id
  /\ \A s \in db.rr_sets : \E z \in db.zones : z.id = s.zone_id

\* C15: fqdn, NormalizeRRSetName and NormalizeFQDN return their own output
\* unchanged when applied to it for the same zone, and every non-empty output
\* is lowercase and ends in a dot.
C15_NormalizationIdempotent ==
  (call.done /\ ~call.err) =>
    /\ call.twice = call.once
    /\ call.once # <<>> => (call.once = ToLower(call.once) /\ HasSuffix(call.once, Dot))

\* the content of a zone: its RRSets with name, type, TTL and records
ZoneContent(d, zid) ==
  {[name |-> s.name, type |-> s.type, ttl |-> s.ttl,
    records |-> {[data |-> r.data, geo |-> r.geo] :
                   r \in {x \in d.r_data : x.rr_set_id = s.id}}] :
     s \in ZoneSets(d, zid)}

\* worker w has imported, with mode=replace, the JSON export of the zone
Reimported(w) ==
  /\ rest[w].pc = "invalidate" /\ rest[w].op = "importZone"
  /\ rest[w].arg.format = "json" /\ rest[w].arg.mode = "replace"
  /\ rest[w].arg.rrsets = ExportRRSets(rest[w].pre, rest[w].zone.id)

\* C16: after the import of a zone's own JSON export with mode=replace the
\* zone holds the RRSets it held before, the SOA RRSet included, each with
\* the same name, type, TTL and records.
C16_ExportImportIdentity ==
  \A w \in DOMAIN rest :
    Reimported(w) =>
      ZoneContent(db, rest[w].zone.id) = ZoneContent(rest[w].pre, rest[w].zone.id)

\* rule k of the Geo Selector, for one record: 1 subnet, 2 ASN, 3 country,
\* 4 continent, 5 no attribute at all; nonEmpty tells whether the country and
\* continent rules ask for codes that are not empty
GeoRule(k, r, ip, g, nonEmpty) ==
  CASE k = 1 -> r.subnet # <<>> /\ r.subnet[1].ok /\ ip \in r.subnet[1].ips
    [] k = 2 -> r.asn # <<>> /\ r.asn[1] = g.asn /\ r.asn[1] # 0
    [] k = 3 -> /\ r.country # <<>> /\ ToLower(r.country[1]) = ToLower(g.country)
                /\ nonEmpty => (r.country[1] # <<>> /\ g.country # <<>>)
    [] k = 4 -> /\ r.continent # <<>> /\ ToLower(r.continent[1]) = ToLower(g.continent)
                /\ nonEmpty => (r.continent[1] # <<>> /\ g.continent # <<>>)
    [] k = 5 -> \A a \in {"subnet", "asn", "country", "continent"} : r[a] = <<>>

\* the records whose first matching rule is rule k, in their order
GeoRuleBucket(k, recs, ip, g, nonEmpty) ==
  SelectSeq(recs, LAMBDA r : /\ GeoRule(k, r, ip, g, nonEmpty)
                             /\ \A j \in 1..(k - 1) : ~GeoRule(j, r, ip, g, nonEmpty))

\* what the Geo Selector rules define for a candidate list and a client
GeoExpected(recs, ip, g, nonEmpty) ==
  LET won == {k \in 1..5 : GeoRuleBucket(k, recs, ip, g, nonEmpty) # <<>>}
  IN IF recs = <<>> THEN <<>>
     ELSE IF ip = 0
     THEN IF GeoRuleBucket(5, recs, 0, g, nonEmpty) # <<>>
          THEN SelectSeq(recs, LAMBDA r : GeoRule(5, r, 0, g, nonEmpty))
          ELSE recs
     ELSE IF won = {} THEN recs
     ELSE GeoRuleBucket(CHOOSE k \in won : \A j \in won : k <= j, recs, ip, g, nonEmpty)

\* C17 as stated: selectGeoRecords returns what the rules define, where the
\* country and the continent rule ask for codes equal ignoring case.
C17_GeoSelectorAsStated ==
  (call.fn = "selectGeoRecords" /\ call.done) =>
    call.out = GeoExpected(call.recs, call.ip, call.g, FALSE)

\* C17 amended: selectGeoRecords returns what the rules define, where the
\* country and the continent rule ask for codes equal ignoring case and both
\* non-empty: the empty list for an empty input, for an invalid IP the records
\* without Geo attribute or else the full list, for a valid IP the first
\* non-empty bucket in the order subnet, ASN, country, continent, generic, or
\* else the full list; the records keep their relative order.
C17_GeoSelectorRules ==
  (call.fn = "selectGeoRecords" /\ call.done) =>
    call.out = GeoExpected(call.recs, call.ip, call.g, TRUE)

C17_Witness ==
  /\ call.fn = "selectGeoRecords" /\ call.done /\ call.ip # 0
  /\ call.rule = "country" /\ Len(call.recs) = 2 /\ Len(call.out) = 1
  /\ call.out[1] = call.recs[2]

\* the zone of the store that a question name belongs to
QuestionZone(r) == MatchZone(LongestFirst(db.zones), ToLower(Fqdn(r.question.name)))

\* C18: with no forwarder and no zone matching the question name a query is
\* answered NXDOMAIN, and the next query with the same name, type and client
\* scope less than 5 minutes later is answered NXDOMAIN from the response
\* cache, without a read of the store or of the zone cache.
C18_NegativeCaching ==
  \A i \in DOMAIN serve :
    (~cfg.forwarder /\ QuestionZone(serve[i].req) = NoZone) =>
      /\ serve[i].reply.rcode = "NXDOMAIN"
      /\ \A j \in DOMAIN serve :
           ( /\ j = i + 1 /\ serve[i].from = "nxdomain"
             /\ CacheKey(serve[j].req) = CacheKey(serve[i].req)
             /\ serve[j].at - serve[i].at < NegativeTTL ) =>
             /\ serve[j].from = "cache" /\ ~serve[j].touched
             /\ serve[j].reply.rcode = "NXDOMAIN"

C18_Witness ==
  /\ ~cfg.forwarder /\ Len(serve) = 2
  /\ QuestionZone(serve[1].req) = NoZone /\ serve[1].from = "nxdomain"
  /\ CacheKey(serve[2].req) = CacheKey(serve[1].req)
  /\ serve[2].req # serve[1].req
  /\ serve[2].at > serve[1].at /\ serve[2].from = "cache"

CNAMEAnswer(d, set, zone, qname) ==
  LET rows == ById({x \in d.r_data : x.rr_set_id = set.id})
  IN [i \in DOMAIN rows |->
        [name |-> qname, ttl |-> set.ttl, type |-> "CNAME",
         data |-> IF rows[i].data.txt = At
                  THEN [rows[i].data EXCEPT !.txt = Fqdn(ToLower(zone.name))]
                  ELSE rows[i].data]]

\* C20: when the zone of the question has no RRSet of the question's name and
\* type but a CNAME RRSet at that name, the reply has rcode NOERROR and its
\* answer is the records of that RRSet as CNAME records for the question name
\* with the TTL of the RRSet, "@" replaced by the zone's FQDN.
C20_CNAMEFallback ==
  \A i \in DOMAIN serve :
    LET q == serve[i].req.question
        qname == ToLower(Fqdn(q.name))
        zone == QuestionZone(serve[i].req)
        cnames == {s \in db.rr_sets :
                     s.zone_id = zone.id /\ s.name = qname /\ s.type = "CNAME"}
    IN ( /\ zone # NoZone /\ cnames # {}
         /\ ~\E s \in db.rr_sets :
               s.zone_id = zone.id /\ s.name = qname /\ s.type = q.qtype ) =>
         /\ serve[i].reply.rcode = "NOERROR"
         /\ \A s \in cnames : serve[i].reply.answer = CNAMEAnswer(db, s, zone, qname)

(***************************************************************************)
(* The REST API behind its token check: api.Use(auth) runs before every    *)
(* handler of the group.  A header is a sequence of words, the scheme      *)
(* "Bearer" followed by a blank included; the bcrypt hash of a token is    *)
(* the token behind the marker "$2a$".                                     *)
(***************************************************************************)
Bearer == <<"Bearer", " ">>
Secret == <<"s">>
Headers == {<<>>, Bearer \o Secret, Bearer \o <<"x">>, Secret, <<"x">>}

\* the middleware's verdict on the Authorization header
auth(c, header) ==
  LET token == IF Len(header) >= Len(Bearer)
                  /\ SubSeq(header, 1, Len(Bearer)) = Bearer
               THEN SubSeq(header, Len(Bearer) + 1, Len(header))
               ELSE header
  IN IF c.apiTokenHash # <<>>
     THEN c.apiTokenHash = <<"$2a$">> \o token
     ELSE IF c.apiToken # <<>>
          THEN token = c.apiToken
          ELSE TRUE

\* a request of the group: c.AbortWithStatus(401) or c.Next()
api(w, header, op, handler) ==
  IF auth(cfg, header)
  THEN handler
  ELSE /\ CanStart(w)
       /\ Respond(w, op, 401, NoZone, NoArg)
       /\ UNCHANGED <<db, zoneCache, cfg, dns, call, resolver>>

InitAuth ==
  /\ db \in {SeedA, SeedAB}
  /\ cfg \in [auto : {FALSE}, defaultTTL : {0},
              apiToken : {<<>>, Secret},
              apiTokenHash : {<<>>, <<"$2a$">> \o Secret}]
  /\ zoneCache \in {NoSnapshot, Snapshot(LongestFirst(db.zones))}
  /\ rest = [w \in Workers |-> Idle]
  /\ last = [w \in Workers |-> NoResponse]
  /\ dns = NoQuery
  /\ nreq = [w \in Workers |-> [started |-> 0, mutations |-> 0]]
  /\ call = NoCall
  /\ rcache = EmptyCache /\ serve = NoQueries /\ clock = 0

NextAuth ==
  \E w \in DOMAIN rest :
    \/ \E h \in Headers, name \in ZoneNameInputs :
         api(w, h, "createZone", createZone(w, name))
    \/ \E h \in Headers, zid \in ZoneIdInputs :
         api(w, h, "deleteZone", deleteZone(w, zid))
    \/ \E h \in Headers, zid \in ZoneIdInputs, rid \in RRSetIdInputs :
         api(w, h, "deleteRRSet", deleteRRSet(w, zid, rid))
    \/ BumpRead(w)
    \/ BumpWrite(w)
    \/ Invalidate(w)

SpecAuth == InitAuth /\ [][NextAuth]_vars

\* a request that carries header h
Sends(w, h) ==
  \/ \E name \in ZoneNameInputs : api(w, h, "createZone", createZone(w, name))
  \/ \E zid \in ZoneIdInputs : api(w, h, "deleteZone", deleteZone(w, zid))
  \/ \E zid \in ZoneIdInputs, rid \in RRSetIdInputs :
       api(w, h, "deleteRRSet", deleteRRSet(w, zid, rid))

\* C21: with an api_token or api_token_hash configured, a request whose
\* Authorization header is not "Bearer " followed by the valid token is
\* answered 401 and changes nothing: the store stays, the request does not
\* go on to an SOA bump or a cache invalidation.
C21_BearerRequired ==
  [][\A w \in DOMAIN rest : \A h \in Headers \ {Bearer \o Secret} :
       ((cfg.apiToken # <<>> \/ cfg.apiTokenHash # <<>>) /\ Sends(w, h)) =>
         /\ rest'[w].pc = "idle"
         /\ last'[w].status = 401
         /\ db' = db /\ zoneCache' = zoneCache]_vars

\* the zone id or the RRSet id names no row of the store
MissingZone(zid) == ZoneById(db, zid) = NoZone
MissingRRSet(rid) == \A s \in db.rr_sets : s.id # rid

\* the modes importZone accepts
Supported == {"upsert", "replace"}

\* C22: a request that names a zone id or an RRSet id that does not exist
\* is answered 404 and changes nothing: store, SOA serial and zone cache
\* stay as they are (DELETE of a zone, PUT, PATCH and DELETE of an RRSet,
\* zone import with a supported mode).
C22_MissingIs404 ==
  [][\A w \in DOMAIN rest : \A zid \in ZoneIdInputs, rid \in RRSetIdInputs :
       ( \/ /\ MissingZone(zid)
            /\ \/ deleteZone(w, zid)
               \/ \E mode \in Supported, body \in JSONBodies :
                    importZoneJSON(w, zid, mode, body)
               \/ \E mode \in Supported, body \in BINDBodies :
                    importZoneBIND(w, zid, mode, body)
               \/ \E mode \in Supported : importZoneOther(w, zid, mode)
         \/ /\ MissingZone(zid) \/ MissingRRSet(rid)
            /\ \/ \E req \in RRSetReqs : updateRRSet(w, zid, rid, req)
               \/ deleteRRSet(w, zid, rid) ) =>
         /\ rest'[w].pc = "idle"
         /\ last'[w].status = 404
         /\ db' = db /\ zoneCache' = zoneCache]_vars

\* C23: when the configuration file sets performance.cache_size to zero,
\* no query is answered from the response cache.
C23_ZeroDisablesCache ==
  cfg.cache_size = 0 => \A i \in DOMAIN serve : serve[i].from # "cache"

(***************************************************************************)
(* The admin panel's POST /admin/templates/:id/apply?zone_id=: the records *)
(* of a template written into a zone.  The placeholder {domain} is one     *)
(* element of a name or of a record's text.                                *)
(***************************************************************************)
RECURSIVE ReplaceAll(_, _, _)
ReplaceAll(s, old, new) ==
  IF s = <<>> THEN <<>>
  ELSE (IF Head(s) = old THEN new ELSE <<Head(s)>>) \o ReplaceAll(Tail(s), old, new)

\* the loop over template.Records, from record i on
RECURSIVE applyTemplateRecords(_, _, _, _)
applyTemplateRecords(d, zone, recs, i) ==
  IF i > Len(recs) THEN d
  ELSE LET domain == TrimSuffix(zone.name, Dot)
           lowered == ToLower(TrimSpace(ReplaceAll(recs[i].name, "{domain}", domain)))
           name == IF HasSuffix(lowered, Dot) THEN lowered ELSE lowered \o Dot
           data == [recs[i].data EXCEPT !.txt = ReplaceAll(@, "{domain}", domain)]
           found == RRSetByKey(d, zone.id, name, recs[i].type)
           created == CreateRRSetRow(d, zone.id, name, recs[i].type, recs[i].ttl, <<>>)
           rid == IF found # {} THEN MinId(found).id ELSE d.seq.rr_sets + 1
           d1 == IF found # {} THEN d ELSE created.db
           d2 == [d1 EXCEPT
                    !.r_data = @ \cup {[id |-> d1.seq.r_data + 1, rr_set_id |-> rid,
                                        data |-> data, geo |-> recs[i].geo]},
                    !.seq.r_data = @ + 1]
       IN IF found = {} /\ created.err
          THEN applyTemplateRecords(d, zone, recs, i + 1)
          ELSE applyTemplateRecords(d2, zone, recs, i + 1)

applyTemplate(w, tid, zid) ==
  /\ CanStart(w)
  /\ LET zone == ZoneById(db, zid)
         arg == [NoArg EXCEPT !.id = tid]
     IN IF \A t \in db.templates : t.id # tid
        THEN /\ Respond(w, "applyTemplate", 404, NoZone, arg)
             /\ UNCHANGED db
        ELSE IF zone = NoZone
        THEN /\ Respond(w, "applyTemplate", 404, NoZone, arg)
             /\ UNCHANGED db
        ELSE /\ db' = applyTemplateRecords(db, zone, ExportTemplateRecords(db, tid), 1)
             /\ Respond(w, "applyTemplate", 200, zone, arg)
  /\ UNCHANGED <<zoneCache, cfg, dns, call, resolver>>

\* zones a. and b. with the templates t (a record at "@") and u (records at
\* W.{domain} and at {domain}, the second with the placeholder in its data)
TemplateStore ==
  SyncTemplate(SeedAB,
    Tmpl("u", "d", <<TmplRec(<<"W", ".", "{domain}">>, "A", 600, Plain("5")),
                     TmplRec(<<"{domain}">>, "MX", 300, Plain("{domain}"))>>))

\* two administrators, one request each
InitTemplate ==
  /\ db \in {TemplateStore, MasterStore}
  /\ cfg \in [auto : BOOLEAN, defaultTTL : {0, 300}]
  /\ zoneCache \in {NoSnapshot, Snapshot(LongestFirst(db.zones))}
  /\ rest = [w \in ConcWorkers |-> Idle]
  /\ last = [w \in ConcWorkers |-> NoResponse]
  /\ dns = NoQuery
  /\ nreq = [w \in ConcWorkers |-> [started |-> 0, mutations |-> 0]]
  /\ call = NoCall
  /\ rcache = EmptyCache /\ serve = NoQueries /\ clock = 0

NextTemplate ==
  \E w \in DOMAIN rest :
    \E tid \in {t.id : t \in db.templates} \cup {db.seq.templates + 1},
       zid \in ZoneIdInputs : applyTemplate(w, tid, zid)

SpecTemplate == InitTemplate /\ [][NextTemplate]_vars

\* template tid was applied to zone zid by an earlier request
AppliedBefore(tid, zid) ==
  \E w \in DOMAIN last :
    /\ last[w].op = "applyTemplate" /\ last[w].status = 200
    /\ last[w].arg.id = tid /\ last[w].zone.id = zid

\* C24: applying a template to a zone it was already applied to creates no
\* new RRSet and no new record.
C24_ApplyTwice ==
  [][\A w \in DOMAIN rest : \A tid \in {t.id : t \in db.templates},
                               zid \in ZoneIdInputs :
       (AppliedBefore(tid, zid) /\ applyTemplate(w, tid, zid)) =>
         db'.rr_sets = db.rr_sets /\ db'.r_data = db.r_data]_vars

\* the exchange a serveDNS step has just logged
Logged == serve'[Len(serve')]

\* C25: when local resolution yields no answer and a forwarder is
\* configured, exactly one upstream query is issued for the request; a
\* response that arrives is relayed unchanged except for its identifier,
\* which is the request's, and is stored in the response cache, for
\* NegativeTTL seconds, if and only if its rcode is not NOERROR.
C25_ForwardOnce ==
  [][(Len(serve') = Len(serve) + 1 /\ cfg.forwarder
        /\ Logged.from \notin {"cache", "local"}) =>
       /\ Logged.asked = 1
       /\ \A in \in {Logged.in[i] : i \in DOMAIN Logged.in} :
            /\ Logged.reply = [in EXCEPT !.id = Logged.req.id]
            /\ in.rcode # "NOERROR" <=>
                 \E e \in rcache' : /\ e.key = CacheKey(Logged.req)
                                    /\ e.msg = Logged.reply
                                    /\ e.expires = clock + NegativeTTL
            /\ in.rcode = "NOERROR" => rcache' = rcache]_vars

\* an upstream NXDOMAIN and an upstream answer were relayed
C25_Witness ==
  /\ \E i \in DOMAIN serve :
       /\ serve[i].from = "forward" /\ serve[i].asked = 1
       /\ serve[i].reply.rcode = "NXDOMAIN" /\ serve[i].reply.id = serve[i].req.id
  /\ \E i \in DOMAIN serve :
       /\ serve[i].from = "forward" /\ serve[i].reply.rcode = "NOERROR"
       /\ serve[i].reply.answer # <<>>

(***************************************************************************)
(* db.ImportZones(db, filename, mode): the zones of a backup file written  *)
(* into the store, in one transaction.                                     *)
(***************************************************************************)
RECURSIVE ImportRRSets(_, _, _)
ImportRRSets(d, zid, rrsets) ==
  IF rrsets = <<>> THEN OK(d)
  ELSE LET rs == Head(rrsets)
           res == CreateRRSetRow(d, zid, NormalizeFQDN(rs.name), ToUpperType(rs.type),
                                 rs.ttl, rs.records)
       IN IF res.err THEN res ELSE ImportRRSets(res.db, zid, Tail(rrsets))

RECURSIVE ImportZoneList(_, _, _)
ImportZoneList(d, zones, mode) ==
  IF zones = <<>> THEN OK(d)
  ELSE LET zone == Head(zones)
           zoneName == NormalizeFQDN(zone.name)
           ex == {z \in d.zones : z.name = zoneName}
           cr == CreateZoneRow(d, zoneName)
           zid == IF ex # {} THEN MinId(ex).id ELSE d.seq.zones + 1
           d1 == IF ex # {} THEN d ELSE cr.db
           d2 == IF mode = "merge" THEN DeleteZoneContent(d1, zid) ELSE d1
           res == ImportRRSets(d2, zid, zone.rrsets)
       IN IF ex = {} /\ cr.err THEN cr
          ELSE IF res.err THEN res
          ELSE ImportZoneList(res.db, Tail(zones), mode)

ImportZones(d, backup, mode) ==
  Transaction(d,
    ImportZoneList(IF mode = "replace"
                   THEN [d EXCEPT !.r_data = {}, !.rr_sets = {}, !.zones = {}]
                   ELSE d,
                   backup, mode))

\* the zones of a backup file: what ExportZones writes for a store, a file
\* that names a zone twice over, and a file that names zone "A" with one
\* RRSet, the names and the type not yet normalized
Backups ==
  {syncExport(d).zones : d \in {EmptyDB, SeedA, SeedAB, MasterStore}}
    \cup {DupSync.zones,
          <<[name |-> <<"A">>,
             rrsets |-> <<Set(<<"W", ".", "a">>, "a", 600, <<Rec(Plain("3"))>>)>>]>>}

InitBackup ==
  /\ db \in Seeds \cup {MasterStore, TemplateStore}
  /\ cfg \in [auto : {FALSE}, defaultTTL : {0}]
  /\ zoneCache = NoSnapshot
  /\ rest = [w \in Workers |-> Idle]
  /\ last = [w \in Workers |-> NoResponse]
  /\ dns = NoQuery
  /\ nreq = [w \in Workers |-> [started |-> 0, mutations |-> 0]]
  /\ call \in [fn : {"ImportZones"}, done : {FALSE}, backup : Backups,
               mode : {"merge", "replace"}, err : {FALSE}, pre : {EmptyDB}]
  /\ rcache = EmptyCache /\ serve = NoQueries /\ clock = 0

applyImportZones ==
  /\ call.fn = "ImportZones" /\ ~call.done
  /\ LET res == ImportZones(db, call.backup, call.mode)
     IN /\ db' = res.db
        /\ call' = [call EXCEPT !.done = TRUE, !.err = res.err, !.pre = db]
  /\ UNCHANGED <<cfg, zoneCache, rest, last, dns, nreq, resolver>>

NextBackup == applyImportZones

SpecBackup == InitBackup /\ [][NextBackup]_vars

\* the RRSets a backup names for the zone called zname, keyed as stored
BackupSets(backup, zname) ==
  UNION {{[name |-> NormalizeFQDN(backup[i].rrsets[j].name),
           type |-> ToUpperType(backup[i].rrsets[j].type),
           ttl |-> backup[i].rrsets[j].ttl,
           records |-> {backup[i].rrsets[j].records[k] :
                          k \in DOMAIN backup[i].rrsets[j].records}] :
            j \in DOMAIN backup[i].rrsets} :
         i \in {n \in DOMAIN backup : NormalizeFQDN(backup[n].name) = zname}}

\* C26: ImportZones with mode "merge" is an upsert: in every zone the backup
\* names, an RRSet of the store whose (name, type) the backup does not name
\* is kept with its records and an RRSet the backup names has the backup's
\* TTL and records; the zones the backup does not name are untouched.
C26_MergeIsUpsert ==
  (call.fn = "ImportZones" /\ call.done /\ ~call.err /\ call.mode = "merge") =>
    \A z \in call.pre.zones :
      LET named == BackupSets(call.backup, z.name)
          before == ZoneContent(call.pre, z.id)
          after == ZoneContent(db, z.id)
      IN IF \E i \in DOMAIN call.backup : NormalizeFQDN(call.backup[i].name) = z.name
         THEN /\ named \subseteq after
              /\ \A s \in before :
                   (\A n \in named : n.name # s.name \/ n.type # s.type) => s \in after
         ELSE after = before

(***************************************************************************)
(* serveDNS as the DNS library runs it: one goroutine per query, so two    *)
(* queries are in the handler at once.  A goroutine goes from the cache    *)
(* lookup to s.lookup, which assigns s.lastRule, and from there to the     *)
(* answer, whose verbose log line reads s.lastRule, or to the forwarder.   *)
(* dns holds the field lastRule of the Server and each goroutine's place.  *)
(***************************************************************************)
Goroutines == {1, 2}

Waiting == [pc |-> "idle", req |-> <<>>, res |-> <<>>, logged |-> <<>>]

\* zone a. of ServeStore with an A RRSet at the apex that has no record
\* without Geo attributes
LogStore == CreateRRSetRow(ServeStore, 1, ZoneA, "A", 300, <<GeoRec(Plain("5"), "US")>>).db

LogQueries ==
  { Query(1, NameWA, "A", 1), Query(2, ZoneA, "A", 1),
    Query(1, NameCA, "A", 1), Query(2, NameWB, "A", 1) }

InitLog ==
  /\ db = LogStore
  /\ cfg \in {[forwarder |-> f, verbose |-> v] @@ Load(n) :
                f \in BOOLEAN, v \in BOOLEAN, n \in {0, CacheSize}}
  /\ zoneCache = NoSnapshot
  /\ rest = [w \in Workers |-> Idle]
  /\ last = [w \in Workers |-> NoResponse]
  /\ dns = [lastRule |-> "", g |-> [g \in Goroutines |-> Waiting]]
  /\ nreq = [w \in Workers |-> [started |-> 0, mutations |-> 0]]
  /\ call = NoCall
  /\ rcache = EmptyCache /\ serve = NoQueries /\ clock = 0

\* from m.SetReply(r) to the cache lookup
serveStart(g, r) ==
  /\ dns.g[g].pc = "idle"
  /\ LET hit == CacheGet(rcache, CacheKey(r), clock)
         cached == (CHOOSE e \in hit : TRUE).msg
     IN IF hit # {}
        THEN /\ serve' = Append(serve, Exchange(r, HitResponse(cached, r), "cache",
                                                 FALSE, 0, <<>>))
             /\ dns' = [dns EXCEPT !.g[g] = [Waiting EXCEPT !.pc = "done", !.req = <<r>>]]
        ELSE /\ dns' = [dns EXCEPT !.g[g] = [Waiting EXCEPT !.pc = "lookup", !.req = <<r>>]]
             /\ UNCHANGED serve
  /\ UNCHANGED <<db, cfg, zoneCache, rest, last, nreq, call, rcache, clock>>

\* answers, ttl, err := s.lookup(r, q, cip)
serveLookup(g) ==
  /\ dns.g[g].pc = "lookup"
  /\ LET r == dns.g[g].req[1]
         zones == IF zoneCache.present THEN zoneCache.zones ELSE LongestFirst(db.zones)
         res == lookup(db, zones, r.question, r.ip)
     IN /\ zoneCache' = Snapshot(zones)
        /\ dns' = [dns EXCEPT
             !.lastRule = IF res.rule # <<>> THEN res.rule[1] ELSE @,
             !.g[g].res = <<res>>,
             !.g[g].pc = IF ~res.err /\ Len(res.answers) > 0 THEN "answer" ELSE "forward"]
  /\ UNCHANGED <<db, cfg, rest, last, nreq, call, resolver>>

\* what the read of s.lastRule in goroutine g can return: the field's
\* value, or, when another goroutine is about to assign the field without
\* synchronization, that value or a mix of the two
ReadLastRule(g) ==
  LET zones == IF zoneCache.present THEN zoneCache.zones ELSE LongestFirst(db.zones)
      pending(h) == IF dns.g[h].pc = "lookup"
                    THEN lookup(db, zones, dns.g[h].req[1].question, dns.g[h].req[1].ip).rule
                    ELSE <<>>
  IN {dns.lastRule} \cup
       UNION {{pending(h)[1], "torn"} :
                h \in {x \in Goroutines \ {g} : pending(x) # <<>>}}

\* the local answer: the log line, w.WriteMsg(m), s.cache.Set
serveAnswer(g) ==
  /\ dns.g[g].pc = "answer"
  /\ LET r == dns.g[g].req[1]
         res == dns.g[g].res[1]
         local == [SetReply(r) EXCEPT !.answer = res.answers]
     IN /\ serve' = Append(serve, Exchange(r, local, "local", TRUE, 0, <<>>))
        /\ rcache' = IF res.ttl > 0
                     THEN CacheSet(rcache, CacheKey(r), local, res.ttl, clock)
                     ELSE rcache
        /\ \E v \in ReadLastRule(g) :
             dns' = [dns EXCEPT !.g[g].pc = "done",
                                !.g[g].logged = IF cfg.verbose THEN <<v>> ELSE <<>>]
  /\ UNCHANGED <<db, cfg, zoneCache, rest, last, nreq, call, clock>>

\* no local answer: the forwarder, or the NXDOMAIN of the server
serveForward(g, up) ==
  /\ dns.g[g].pc = "forward"
  /\ LET r == dns.g[g].req[1]
         in == Forward(r.question, up)
         nx == [SetReply(r) EXCEPT !.rcode = "NXDOMAIN"]
     IN IF cfg.forwarder /\ up # "error"
        THEN /\ serve' = Append(serve, Exchange(r, Relay(in, r), "forward", TRUE, 1, <<in>>))
             /\ rcache' = IF up # "NOERROR"
                          THEN CacheSet(rcache, CacheKey(r), Relay(in, r), NegativeTTL, clock)
                          ELSE rcache
        ELSE /\ serve' = Append(serve, Exchange(r, nx, "nxdomain", TRUE,
                                                 IF cfg.forwarder THEN 1 ELSE 0, <<>>))
             /\ rcache' = CacheNegative(rcache, CacheKey(r), nx, clock)
  /\ dns' = [dns EXCEPT !.g[g].pc = "done"]
  /\ UNCHANGED <<db, cfg, zoneCache, rest, last, nreq, call, clock>>

NextLog ==
  \E g \in Goroutines :
    \/ \E r \in LogQueries : serveStart(g, r)
    \/ serveLookup(g)
    \/ serveAnswer(g)
    \/ \E up \in Upstream : serveForward(g, up)

SpecLog == InitLog /\ [][NextLog]_vars

\* C27: what the handling of one query wrote is not read by the handling
\* of another, concurrently processed query: the Geo rule that a query's
\* log line shows is the one its own lookup selected, or the empty rule
\* of a server that has selected nothing when its lookup selected none.
C27_NoSharedQueryState ==
  \A g \in Goroutines :
    dns.g[g].logged # <<>> =>
      \/ dns.g[g].logged = dns.g[g].res[1].rule
      \/ dns.g[g].res[1].rule = <<>> /\ dns.g[g].logged = <<"">>

\* qname is the zone's apex or lies below it
Below(qname, zone) ==
  LET apex == Fqdn(ToLower(zone.name))
  IN qname = apex \/ HasSuffix(qname, Dot \o apex)

\* the most specific zones of a list for a question name
MostSpecific(zones, qname) ==
  LET over == {zones[i] : i \in {j \in DOMAIN zones : Below(qname, zones[j])}}
  IN {z \in over : \A x \in over : Len(Fqdn(x.name)) <= Len(Fqdn(z.name))}

\* the zone the lookup has to select
Selects(zones, qname, zone) ==
  IF MostSpecific(zones, qname) = {} THEN zone = NoZone
  ELSE zone \in MostSpecific(zones, qname)

\* C28: lookup selects the zone with the longest name among the zones of
\* which the question name is the apex or a subdomain, and no zone when
\* there is none; a zone whose name is a suffix of the question name that
\* does not start at a label boundary is never selected.
C28_MostSpecificZone ==
  [][/\ \A q \in QNames :
          (zoneCache.present /\ lookupGet(q)) =>
            Selects(zoneCache.zones, ToLower(Fqdn(q)), dns'.zone)
     /\ lookupSet => Selects(dns.zones, dns.qname, dns'.zone)]_vars

\* the (name, type, TTL, record data) of a zone
ZoneRecords(d, zid) ==
  {[name |-> s.name, type |-> s.type, ttl |-> s.ttl, data |-> r.data] :
     <<s, r>> \in {p \in ZoneSets(d, zid) \X d.r_data : p[2].rr_set_id = p[1].id}}

\* worker w has imported, with mode=replace, the BIND export of a zone
\* whose records carry no Geo attribute
ReimportedBIND(w) ==
  /\ rest[w].pc = "bump" /\ rest[w].op = "importZone"
  /\ rest[w].arg.format = "bind" /\ rest[w].arg.mode = "replace" /\ rest[w].arg.id = 0
  /\ \A r \in rest[w].pre.r_data : r.geo = ""

\* C30: importing the text ToBind produced for a zone without Geo
\* attributes back into the zone with mode=replace yields the same set of
\* (name, type, TTL, record data).
C30_BindRoundTrip ==
  \A w \in DOMAIN rest :
    ReimportedBIND(w) =>
      ZoneRecords(db, rest[w].zone.id) = ZoneRecords(rest[w].pre, rest[w].zone.id)

\* exchange i ended in the server's own NXDOMAIN after its one upstream
\* query had failed
ForwarderFailed(i) ==
  serve[i].from = "nxdomain" /\ serve[i].asked = 1 /\ serve[i].in = <<>>

\* C29: a forwarder failure does not outlive the failing query: the next
\* query with the same name, type and client scope is not answered with
\* the NXDOMAIN from the response cache, it is sent to the forwarder.
C29_FailureNotCached ==
  \A i \in DOMAIN serve :
    (i > 1 /\ ForwarderFailed(i - 1)
       /\ CacheKey(serve[i].req) = CacheKey(serve[i - 1].req)) =>
      serve[i].from # "cache" /\ serve[i].asked = 1

====
